---------------------------- MODULE Spec2Model ----------------------------
(***************************************************************************)
(* Protocol-compliance engine of FuZeCORE.ai                               *)
(*   src/factory/BAKERY/protocol-compoliance/lib.rs   (the library)        *)
(*   src/protocol-compoliance-score/generate_pcs.rs   (the binary's main)  *)
(*                                                                         *)
(* Text that the program treats as data (paths, prompts, replies,          *)
(* expected_start, forbidden terms) is a sequence of one-character         *)
(* strings, so that prefix tests, substring tests and lower-casing are     *)
(* computed as the code computes them.  A value built by format!/println!  *)
(* from a literal with one "{}" hole is the pair of the literal and the    *)
(* text put in the hole.                                                   *)
(***************************************************************************)
EXTENDS Integers, Sequences, FiniteSets, TLC

VARIABLES
    args,               \* argv handed to run_protocol_compliance
    mdFile,             \* the file system entry at md_path
    jsonFile,           \* the file system entry at json_path
    pc,                 \* position inside main / run_protocol_compliance
    protocol_base,      \* lib.rs:4
    md_path,            \* lib.rs:9
    json_path,          \* lib.rs:10
    protocol_content,   \* lib.rs:20
    tests,              \* lib.rs:33
    results,            \* lib.rs:34
    idx,                \* number of loop iterations of lib.rs:35 completed
    inflight,           \* a send_to_llm call has been issued and not returned
    calls,              \* prompts handed to send_to_llm, in order
    replies,            \* what each returned send_to_llm call gave back
    ret,                \* the Result returned by run_protocol_compliance
    stdout,             \* lines printed with println!
    stderr,             \* lines printed with eprintln!
    exit_code,          \* process exit status set by main
    fn_test,            \* evaluate_response driven alone: its test argument
    fn_response,        \* evaluate_response driven alone: its response argument
    fn_result,          \* evaluate_response driven alone: its return value
    fn_done,            \* evaluate_response driven alone: it has returned
    sc_results,         \* print_compliance_score driven alone: its argument
    sc_out,             \* print_compliance_score driven alone: lines printed
    sc_done,            \* print_compliance_score driven alone: it has returned
    ld_file,            \* build_compliance_tests driven alone: the file at json_path
    ld_out,             \* build_compliance_tests driven alone: its return value
    ld_done,            \* build_compliance_tests driven alone: it has returned
    ask_outcome,        \* send_to_llm driven alone: what the transport does
    ask_out,            \* send_to_llm driven alone: its return value
    ask_done,           \* send_to_llm driven alone: it has returned
    cli_args,           \* path derivation driven alone: argv
    cli_out,            \* path derivation driven alone: protocol_base and paths
    cli_done            \* path derivation driven alone: the paths are derived

vars ==
    <<args, mdFile, jsonFile, pc, protocol_base, md_path, json_path,
      protocol_content, tests, results, idx, inflight, calls, replies, ret,
      stdout, stderr, exit_code, fn_test, fn_response, fn_result, fn_done,
      sc_results, sc_out, sc_done, ld_file, ld_out, ld_done,
      ask_outcome, ask_out, ask_done, cli_args, cli_out, cli_done>>

runVars ==
    <<args, mdFile, jsonFile, pc, protocol_base, md_path, json_path,
      protocol_content, tests, results, idx, inflight, calls, replies, ret,
      stdout, stderr, exit_code>>

evalVars ==
    <<fn_test, fn_response, fn_result, fn_done>>

scoreVars ==
    <<sc_results, sc_out, sc_done>>

loadVars ==
    <<ld_file, ld_out, ld_done>>

askVars ==
    <<ask_outcome, ask_out, ask_done>>

cliVars ==
    <<cli_args, cli_out, cli_done>>

fnVars ==
    <<evalVars, scoreVars, loadVars, askVars, cliVars>>

(***************************************************************************)
(* Bounds of the model                                                     *)
(***************************************************************************)
\* longest specification array explored by the runner
MaxTests ==
    2

\* longest expected_start / response drawn for evaluate_response alone
MaxLen ==
    2

\* longest forbidden list drawn for evaluate_response alone
MaxForbidden ==
    2

\* largest batch of results handed to print_compliance_score alone
MaxBatch ==
    3

(***************************************************************************)
(* Text                                                                    *)
(***************************************************************************)
EMPTY ==
    <<>>

UPPER ==
    <<"A","B","C","D","E","F","G","H","I","J","K","L","M","N","O","P","Q","R","S","T","U","V","W","X","Y","Z">>

LOWER ==
    <<"a","b","c","d","e","f","g","h","i","j","k","l","m","n","o","p","q","r","s","t","u","v","w","x","y","z">>

\* char::to_lowercase on the ASCII range
LowerChar(c) ==
    IF \E k \in 1..Len(UPPER) : UPPER[k] = c
    THEN LOWER[CHOOSE k \in 1..Len(UPPER) : UPPER[k] = c]
    ELSE c

\* str::to_lowercase
to_lowercase(s) ==
    [k \in 1..Len(s) |-> LowerChar(s[k])]

\* str::starts_with
starts_with(s, p) ==
    /\ Len(p) <= Len(s)
    /\ SubSeq(s, 1, Len(p)) = p

\* contains that never finds the empty pattern
contains_nonempty_only(s, p) ==
    /\ p # <<>>
    /\ \E k \in 0..(Len(s) - Len(p)) : SubSeq(s, k + 1, k + Len(p)) = p

\* str::contains
contains(s, p) ==
    \E k \in 0..(Len(s) - Len(p)) : SubSeq(s, k + 1, k + Len(p)) = p

\* the text of a format!/println! literal with its hole filled
Fmt(literal, hole) ==
    [fmt |-> literal, arg |-> hole]

Digit(d) ==
    <<"0","1","2","3","4","5","6","7","8","9">>[d + 1]

RECURSIVE Decimal(_)
\* Display of an unsigned integer
Decimal(n) ==
    IF n < 10 THEN <<Digit(n)>> ELSE Decimal(n \div 10) \o <<Digit(n % 10)>>

(***************************************************************************)
(* Constants of the program                                                *)
(***************************************************************************)
DEFAULT_BASE ==
    <<"C","O","M","M","U","N","I","C","A","T","I","O","N","_","P","R","O","T","O","C","O","L">>

FLAG ==
    <<"-","-","p","r","o","t","o","c","o","l">>

EXT_MD ==
    <<".","m","d">>

EXT_JSON ==
    <<".","j","s","o","n">>

INIT_PROMPT ==
    <<"Y","o","u"," ","m","u","s","t"," ","e","n","f","o","r","c","e"," ","t","h","e"," ","f","o","l","l","o","w","i","n","g"," ","p","r","o","t","o","c","o","l",":","\n">>

SENTINEL ==
    <<"E","R","R","O","R",":"," ","C","o","u","l","d"," ","n","o","t"," ","c","o","n","n","e","c","t"," ","t","o"," ","c","h","a","t"," ","e","n","d","p","o","i","n","t">>

ERR_MISSING_MD ==
    "ERROR: Missing protocol markdown file: {}"

ERR_MISSING_JSON ==
    "ERROR: Missing protocol JSON file: {}"

ERR_READ_MD ==
    "Failed to read protocol markdown file: {}"

ERR_READ_JSON ==
    "Failed to read protocol JSON file: {}"

ERR_INVALID_JSON ==
    "Invalid JSON format: {}"

MISSING_FORMAT ==
    "Missing mandatory response format"

FORBIDDEN_FORMAT ==
    "Contains forbidden behavior: '{}'"

(***************************************************************************)
(* serde_json::Value                                                       *)
(***************************************************************************)
JNull ==
    [t |-> "null"]

JNum ==
    [t |-> "number"]

JStr(s) ==
    [t |-> "string", s |-> s]

JArr(items) ==
    [t |-> "array", a |-> items]

JObj(fields) ==
    [t |-> "object", o |-> fields]

\* Value's Index<&str>: Null unless the value is an object holding the key
Index(v, key) ==
    IF v.t = "object" /\ key \in DOMAIN v.o THEN v.o[key] ELSE JNull

\* Value::as_str().unwrap_or("")
as_str_or_empty(v) ==
    IF v.t = "string" THEN v.s ELSE EMPTY

\* Value::as_array(), as the pair <<is Some, elements>>
as_array(v) ==
    IF v.t = "array" THEN <<TRUE, v.a>> ELSE <<FALSE, <<>>>>


(***************************************************************************)
(* Endpoint Client: send_to_llm                                            *)
(***************************************************************************)
\* what Client::post(..).send() and Response::json() can give:
\*   send   "ok" (a response arrived, whatever its status) or the reason
\*          send() returned Err
\*   status the HTTP status of the response
\*   body   the reply body as JSON, or [t |-> "malformed"] when json() fails
Outcome(send, status, body) ==
    [send |-> send, status |-> status, body |-> body]

MALFORMED_BODY ==
    [t |-> "malformed"]

\* send_to_llm treating a status outside 200..299 as a failed call
send_to_llm_checks_status(outcome) ==
    IF outcome.send = "ok" /\ outcome.status \in 200..299
    THEN LET v == IF outcome.body = MALFORMED_BODY THEN JNull ELSE outcome.body
         IN  as_str_or_empty(Index(v, "response"))
    ELSE SENTINEL

\* send_to_llm answering a reply without text by the sentinel
send_to_llm_sentinel_without_text(outcome) ==
    IF outcome.send = "ok"
    THEN LET v == IF outcome.body = MALFORMED_BODY THEN JNull ELSE outcome.body
         IN  IF Index(v, "response").t = "string"
             THEN Index(v, "response").s ELSE SENTINEL
    ELSE SENTINEL

send_to_llm(outcome) ==
    IF outcome.send = "ok"
    THEN LET v == IF outcome.body = MALFORMED_BODY THEN JNull ELSE outcome.body
         IN  as_str_or_empty(Index(v, "response"))
    ELSE SENTINEL

(***************************************************************************)
(* Test Specification Loader: build_compliance_tests                       *)
(***************************************************************************)
\* a file system entry: kind "missing" (metadata fails), "unreadable"
\* (metadata succeeds, read_to_string fails: a directory, bytes that are not
\* UTF-8) or "text"; text is the content read; doc is what
\* serde_json::from_str makes of the content ([t |-> "invalid"] when it
\* returns Err)
File(kind, text, doc) ==
    [kind |-> kind, text |-> text, doc |-> doc]

INVALID_JSON ==
    [t |-> "invalid"]

\* Display of the std::io::Error / serde_json::Error put in an error message
IO_ERROR ==
    <<"o","s"," ","e","r","r","o","r">>

PARSE_ERROR ==
    <<"e","x","p","e","c","t","e","d"," ","v","a","l","u","e">>

Ok(v) ==
    [ok |-> TRUE, val |-> v, err |-> Fmt("", EMPTY)]

Err(e) ==
    [ok |-> FALSE, val |-> <<>>, err |-> e]

\* lib.rs:101-103: the string elements of the array, in order
RECURSIVE filter_map_as_str(_)
filter_map_as_str(fa) ==
    IF fa = <<>> THEN <<>>
    ELSE IF Head(fa).t = "string"
         THEN <<Head(fa).s>> \o filter_map_as_str(Tail(fa))
         ELSE filter_map_as_str(Tail(fa))

\* ComplianceTest reading the prefix from the key "expectedStart"
ComplianceTest_camel_case_key(item) ==
    [name           |-> as_str_or_empty(Index(item, "name")),
     prompt         |-> as_str_or_empty(Index(item, "prompt")),
     expected_start |-> as_str_or_empty(Index(item, "expectedStart")),
     forbidden      |-> LET fa == as_array(Index(item, "forbidden"))
                        IN  IF fa[1] THEN filter_map_as_str(fa[2]) ELSE <<>>]

\* ComplianceTest giving up the whole forbidden list when one element is
\* not a string
ComplianceTest_all_or_nothing(item) ==
    [name           |-> as_str_or_empty(Index(item, "name")),
     prompt         |-> as_str_or_empty(Index(item, "prompt")),
     expected_start |-> as_str_or_empty(Index(item, "expected_start")),
     forbidden      |-> LET fa == as_array(Index(item, "forbidden"))
                        IN  IF fa[1] /\ \A k \in 1..Len(fa[2]) : fa[2][k].t = "string"
                            THEN filter_map_as_str(fa[2]) ELSE <<>>]

\* lib.rs:98-109: one element of the array to one ComplianceTest
ComplianceTest(item) ==
    [name           |-> as_str_or_empty(Index(item, "name")),
     prompt         |-> as_str_or_empty(Index(item, "prompt")),
     expected_start |-> as_str_or_empty(Index(item, "expected_start")),
     forbidden      |-> LET fa == as_array(Index(item, "forbidden"))
                        IN  IF fa[1] THEN filter_map_as_str(fa[2]) ELSE <<>>]

\* build_compliance_tests passing over the elements that are no objects
build_compliance_tests_skips_non_objects(file) ==
    IF file.kind # "text" THEN Err(Fmt(ERR_READ_JSON, IO_ERROR))
    ELSE IF file.doc = INVALID_JSON THEN Err(Fmt(ERR_INVALID_JSON, PARSE_ERROR))
    ELSE LET arr == as_array(file.doc)
             objects == SelectSeq(arr[2], LAMBDA v : v.t = "object")
         IN  Ok([k \in 1..Len(objects) |-> ComplianceTest(objects[k])])

\* build_compliance_tests refusing a document whose top level is no array
build_compliance_tests_rejects_non_array(file) ==
    IF file.kind # "text" THEN Err(Fmt(ERR_READ_JSON, IO_ERROR))
    ELSE IF file.doc = INVALID_JSON THEN Err(Fmt(ERR_INVALID_JSON, PARSE_ERROR))
    ELSE LET arr == as_array(file.doc)
         IN  IF arr[1]
             THEN Ok([k \in 1..Len(arr[2]) |-> ComplianceTest(arr[2][k])])
             ELSE Err(Fmt(ERR_INVALID_JSON, PARSE_ERROR))

build_compliance_tests(file) ==
    IF file.kind # "text" THEN Err(Fmt(ERR_READ_JSON, IO_ERROR))
    ELSE IF file.doc = INVALID_JSON THEN Err(Fmt(ERR_INVALID_JSON, PARSE_ERROR))
    ELSE LET arr == as_array(file.doc)
         IN  IF arr[1]
             THEN Ok([k \in 1..Len(arr[2]) |-> ComplianceTest(arr[2][k])])
             ELSE Ok(<<>>)

(***************************************************************************)
(* Response Evaluator: evaluate_response                                   *)
(***************************************************************************)
TestResult(passed, violations, response) ==
    [passed |-> passed, violations |-> violations, response |-> response]

\* check_expected_start comparing without regard to letter case
check_expected_start_ignore_case(test, response) ==
    IF ~starts_with(to_lowercase(response), to_lowercase(test.expected_start))
    THEN <<<<Fmt(MISSING_FORMAT, EMPTY)>>, FALSE>>
    ELSE <<<<>>, TRUE>>

\* lib.rs:118-121: the prefix check, on the pair of locals <<violations, passed>>
check_expected_start(test, response) ==
    IF ~starts_with(response, test.expected_start)
    THEN <<<<Fmt(MISSING_FORMAT, EMPTY)>>, FALSE>>
    ELSE <<<<>>, TRUE>>

\* forbidden_hit with the forbidden entry compared as written
forbidden_hit_entry_as_written(response_lower, forbidden) ==
    contains(response_lower, forbidden)

\* lib.rs:124: the test made on one forbidden entry
forbidden_hit(response_lower, forbidden) ==
    contains(response_lower, to_lowercase(forbidden))

RECURSIVE check_forbidden_keeps_passed(_, _, _)
\* check_forbidden that records the violation and leaves passed as it was
check_forbidden_keeps_passed(list, response_lower, acc) ==
    IF list = <<>> THEN acc
    ELSE IF forbidden_hit(response_lower, Head(list))
         THEN check_forbidden_keeps_passed(Tail(list), response_lower,
                  <<Append(acc[1], Fmt(FORBIDDEN_FORMAT, Head(list))), acc[2]>>)
         ELSE check_forbidden_keeps_passed(Tail(list), response_lower, acc)

RECURSIVE check_forbidden_stops_at_first_match(_, _, _)
\* check_forbidden that leaves the loop at the first entry that matches
check_forbidden_stops_at_first_match(list, response_lower, acc) ==
    IF list = <<>> THEN acc
    ELSE IF forbidden_hit(response_lower, Head(list))
         THEN <<Append(acc[1], Fmt(FORBIDDEN_FORMAT, Head(list))), FALSE>>
         ELSE check_forbidden_stops_at_first_match(Tail(list), response_lower, acc)

RECURSIVE check_forbidden(_, _, _)
\* lib.rs:123-128: the loop over test.forbidden, on <<violations, passed>>
check_forbidden(list, response_lower, acc) ==
    IF list = <<>> THEN acc
    ELSE IF forbidden_hit(response_lower, Head(list))
         THEN check_forbidden(Tail(list), response_lower,
                  <<Append(acc[1], Fmt(FORBIDDEN_FORMAT, Head(list))), FALSE>>)
         ELSE check_forbidden(Tail(list), response_lower, acc)

evaluate_response(test, response) ==
    LET first == check_expected_start(test, response)
        response_lower == to_lowercase(response)
        final == check_forbidden(test.forbidden, response_lower, first)
    IN  TestResult(final[2], final[1], response)

(***************************************************************************)
(* Score Reporter: print_compliance_score                                  *)
(***************************************************************************)
RECURSIVE count_not_passed(_)
\* count_passed with the filter inverted
count_not_passed(rs) ==
    IF rs = <<>> THEN 0
    ELSE (IF Head(rs).passed THEN 0 ELSE 1) + count_not_passed(Tail(rs))

RECURSIVE count_passed(_)
count_passed(rs) ==
    IF rs = <<>> THEN 0
    ELSE (IF Head(rs).passed THEN 1 ELSE 0) + count_passed(Tail(rs))

NAN_TEXT ==
    <<"N","a","N">>

\* format_percent reporting 0.0 for an empty batch
format_percent_zero_when_empty(passed, total) ==
    IF total = 0 THEN <<"0", ".", "0">>
    ELSE LET q == (passed * 1000) \div total
             r == (passed * 1000) % total
             tenths == IF 2 * r > total \/ (2 * r = total /\ q % 2 = 1)
                       THEN q + 1 ELSE q
         IN  Decimal(tenths \div 10) \o <<".">> \o <<Digit(tenths % 10)>>

\* "{:.1}" of (passed as f64 / total as f64) * 100.0: NaN for 0/0, else the
\* quotient rounded to one decimal (ties to even)
format_percent(passed, total) ==
    IF total = 0 THEN NAN_TEXT
    ELSE LET q == (passed * 1000) \div total
             r == (passed * 1000) % total
             tenths == IF 2 * r > total \/ (2 * r = total /\ q % 2 = 1)
                       THEN q + 1 ELSE q
         IN  Decimal(tenths \div 10) \o <<".">> \o <<Digit(tenths % 10)>>

\* the lines print_compliance_score writes to stdout
print_compliance_score(rs) ==
    LET total == Len(rs)
        passed == count_passed(rs)
    IN  << Fmt("=== PROTOCOL COMPLIANCE REPORT ===", EMPTY),
           Fmt("Total Tests: {}", Decimal(total)),
           Fmt("Passed: {}", Decimal(passed)),
           Fmt("Failed: {}", Decimal(total - passed)),
           Fmt("COMPLIANCE SCORE: {:.1}%", format_percent(passed, total)) >>

(***************************************************************************)
(* Inputs explored                                                         *)
(***************************************************************************)
BIN ==
    <<"b","i","n">>

BASE_P ==
    <<"P">>

\* argument vectors: no flag, the flag with its value, the flag alone
ArgVectors ==
    { <<BIN>>, <<BIN, FLAG, BASE_P>>, <<BIN, FLAG>> }

POLICY_TEXT ==
    <<"B","e"," ","k","i","n","d">>

MdFiles ==
    { File("missing", EMPTY, JNull),
      File("unreadable", EMPTY, JNull),
      File("text", POLICY_TEXT, JNull) }

T1 == <<"t","1">>
T2 == <<"t","2">>
P1 == <<"p","1">>
P2 == <<"p","2">>
HI == <<"H","i">>
BAD == <<"b","a","d">>

\* a record of the specification array with all four keys
TestItem(name, prompt, expected_start, forbidden) ==
    JObj([name |-> JStr(name), prompt |-> JStr(prompt),
          expected_start |-> JStr(expected_start),
          forbidden |-> JArr([k \in 1..Len(forbidden) |-> JStr(forbidden[k])])])

\* elements a specification array is built from: a test with no rule, a
\* test with a prefix and a forbidden term, a record with only a prompt, an
\* element that is no record
ItemPool ==
    { TestItem(T1, P1, EMPTY, <<>>),
      TestItem(T2, P2, HI, <<BAD>>),
      JObj([prompt |-> JStr(P1)]),
      JNum }

RECURSIVE SeqsUpTo(_, _)
\* the sequences over S of length at most n
SeqsUpTo(S, n) ==
    IF n = 0 THEN { <<>> }
    ELSE LET shorter == SeqsUpTo(S, n - 1)
         IN  shorter \cup { Append(q, x) : q \in shorter, x \in S }

JsonDocs ==
    { INVALID_JSON, JObj([name |-> JStr(T1)]) }
        \cup { JArr(items) : items \in SeqsUpTo(ItemPool, MaxTests) }

JsonFiles ==
    { File("missing", EMPTY, JNull), File("unreadable", EMPTY, JNull) }
        \cup { File("text", EMPTY, doc) : doc \in JsonDocs }

\* endpoint behaviours met by the runner: connection refused, a reply that
\* is not JSON, and two well-formed replies
RunOutcomes ==
    { Outcome("refused", 0, MALFORMED_BODY),
      Outcome("ok", 200, MALFORMED_BODY),
      Outcome("ok", 200, JObj([response |-> JStr(<<"H","i"," ","y","o","u">>)])),
      Outcome("ok", 200, JObj([response |-> JStr(<<"B","A","D">>)])) }

NO_RESULT ==
    [tag |-> "none", err |-> Fmt("", EMPTY)]

RESULT_OK ==
    [tag |-> "Ok", err |-> Fmt("", EMPTY)]

ResultErr(e) ==
    [tag |-> "Err", err |-> e]

NO_EXIT ==
    -1

(***************************************************************************)
(* Compliance Runner: run_protocol_compliance, called by main              *)
(***************************************************************************)
RunInit ==
    /\ args \in ArgVectors
    /\ mdFile \in MdFiles
    /\ jsonFile \in JsonFiles
    /\ pc = "Idle"
    /\ protocol_base = EMPTY
    /\ md_path = EMPTY
    /\ json_path = EMPTY
    /\ protocol_content = EMPTY
    /\ tests = <<>>
    /\ results = <<>>
    /\ idx = 0
    /\ inflight = FALSE
    /\ calls = <<>>
    /\ replies = <<>>
    /\ ret = NO_RESULT
    /\ stdout = <<>>
    /\ stderr = <<>>
    /\ exit_code = NO_EXIT

EvalIdle ==
    /\ fn_test = ComplianceTest(JNull)
    /\ fn_response = EMPTY
    /\ fn_result = TestResult(TRUE, <<>>, EMPTY)
    /\ fn_done = FALSE

ScoreIdle ==
    /\ sc_results = <<>>
    /\ sc_out = <<>>
    /\ sc_done = FALSE

LoadIdle ==
    /\ ld_file = File("missing", EMPTY, JNull)
    /\ ld_out = Ok(<<>>)
    /\ ld_done = FALSE

AskIdle ==
    /\ ask_outcome = Outcome("refused", 0, MALFORMED_BODY)
    /\ ask_out = EMPTY
    /\ ask_done = FALSE

CliIdle ==
    /\ cli_args = <<BIN>>
    /\ cli_out = [base |-> EMPTY, md_path |-> EMPTY, json_path |-> EMPTY]
    /\ cli_done = FALSE

FnIdle ==
    /\ EvalIdle
    /\ ScoreIdle
    /\ LoadIdle
    /\ AskIdle
    /\ CliIdle

\* lib.rs:4-7
\* parse_protocol_base taking a flag without value as the empty base name
parse_protocol_base_empty_without_value(argv) ==
    IF Len(argv) > 1 /\ argv[2] = FLAG
    THEN (IF Len(argv) > 2 THEN argv[3] ELSE EMPTY)
    ELSE DEFAULT_BASE

\* parse_protocol_base looking for the flag at every position
parse_protocol_base_any_position(argv) ==
    LET at == { i \in 2..(Len(argv) - 1) : argv[i] = FLAG }
    IN  IF at = {} THEN DEFAULT_BASE
        ELSE argv[(CHOOSE i \in at : \A j \in at : i <= j) + 1]

parse_protocol_base(argv) ==
    IF Len(argv) > 2 /\ argv[2] = FLAG THEN argv[3] ELSE DEFAULT_BASE

\* generate_pcs.rs:8-9 and lib.rs:3-10: main collects the arguments and
\* enters run_protocol_compliance, which prints the banner and derives the
\* two paths
Enter ==
    /\ pc = "Idle"
    /\ stdout' = Append(stdout, Fmt("=== PROTOCOL COMPLIANCE LIVE TESTER ===", EMPTY))
    /\ protocol_base' = parse_protocol_base(args)
    /\ md_path' = parse_protocol_base(args) \o EXT_MD
    /\ json_path' = parse_protocol_base(args) \o EXT_JSON
    /\ pc' = "ValidatingInputs"
    /\ UNCHANGED <<args, mdFile, jsonFile, protocol_content, tests, results,
                   idx, inflight, calls, replies, ret, stderr, exit_code>>
    /\ UNCHANGED fnVars

\* validate_inputs with the read of the policy defaulting to empty text on error
validate_inputs_read_or_default(md, json, mdp, jsp) ==
    IF md.kind = "missing" THEN Err(Fmt(ERR_MISSING_MD, mdp))
    ELSE IF json.kind = "missing" THEN Err(Fmt(ERR_MISSING_JSON, jsp))
    ELSE Ok(md.text)

\* validate_inputs with the two existence checks in the other order
validate_inputs_json_first(md, json, mdp, jsp) ==
    IF json.kind = "missing" THEN Err(Fmt(ERR_MISSING_JSON, jsp))
    ELSE IF md.kind = "missing" THEN Err(Fmt(ERR_MISSING_MD, mdp))
    ELSE IF md.kind # "text" THEN Err(Fmt(ERR_READ_MD, IO_ERROR))
    ELSE Ok(md.text)

\* validate_inputs reading the policy before looking for the specification
validate_inputs_read_first(md, json, mdp, jsp) ==
    IF md.kind = "missing" THEN Err(Fmt(ERR_MISSING_MD, mdp))
    ELSE IF md.kind # "text" THEN Err(Fmt(ERR_READ_MD, IO_ERROR))
    ELSE IF json.kind = "missing" THEN Err(Fmt(ERR_MISSING_JSON, jsp))
    ELSE Ok(md.text)

\* lib.rs:12-21, as the Result of the three checks
validate_inputs(md, json, mdp, jsp) ==
    IF md.kind = "missing" THEN Err(Fmt(ERR_MISSING_MD, mdp))
    ELSE IF json.kind = "missing" THEN Err(Fmt(ERR_MISSING_JSON, jsp))
    ELSE IF md.kind # "text" THEN Err(Fmt(ERR_READ_MD, IO_ERROR))
    ELSE Ok(md.text)

ValidateInputs ==
    /\ pc = "ValidatingInputs"
    /\ LET v == validate_inputs(mdFile, jsonFile, md_path, json_path)
       IN  IF v.ok
           THEN /\ protocol_content' = v.val
                /\ pc' = "PolicyBroadcast"
                /\ ret' = ret
           ELSE /\ protocol_content' = protocol_content
                /\ pc' = "Returned"
                /\ ret' = ResultErr(v.err)
    /\ UNCHANGED <<args, mdFile, jsonFile, protocol_base, md_path, json_path,
                   tests, results, idx, inflight, calls, replies, stdout,
                   stderr, exit_code>>
    /\ UNCHANGED fnVars

\* BroadcastSend that sends nothing: the run goes straight on to the tests
BroadcastSendSkipped ==
    /\ pc = "PolicyBroadcast"
    /\ ~inflight
    /\ stdout' = Append(stdout, Fmt("Initializing protocol enforcement...", EMPTY))
    /\ pc' = "LoadingTests"
    /\ UNCHANGED <<args, mdFile, jsonFile, protocol_base, md_path, json_path,
                   protocol_content, tests, results, idx, inflight, calls,
                   replies, ret, stderr, exit_code>>
    /\ UNCHANGED fnVars

\* lib.rs:24-29: the policy-broadcast call is issued
BroadcastSend ==
    /\ pc = "PolicyBroadcast"
    /\ ~inflight
    /\ stdout' = Append(stdout, Fmt("Initializing protocol enforcement...", EMPTY))
    /\ calls' = Append(calls, INIT_PROMPT \o protocol_content)
    /\ inflight' = TRUE
    /\ UNCHANGED <<args, mdFile, jsonFile, pc, protocol_base, md_path,
                   json_path, protocol_content, tests, results, idx, replies,
                   ret, stderr, exit_code>>
    /\ UNCHANGED fnVars

\* BroadcastReturn that gives up the run when the broadcast call failed
BroadcastReturnAbortsOnFailure ==
    /\ pc = "PolicyBroadcast"
    /\ inflight
    /\ \E outcome \in RunOutcomes :
          /\ replies' = Append(replies, [send |-> outcome.send,
                                         text |-> send_to_llm(outcome)])
          /\ IF send_to_llm(outcome) = SENTINEL
             THEN /\ pc' = "Returned"
                  /\ ret' = ResultErr(Fmt("{}", SENTINEL))
                  /\ stdout' = stdout
             ELSE /\ pc' = "LoadingTests"
                  /\ ret' = ret
                  /\ stdout' = Append(stdout, Fmt("Protocol sent. Beginning compliance tests...\n", EMPTY))
    /\ inflight' = FALSE
    /\ UNCHANGED <<args, mdFile, jsonFile, protocol_base, md_path, json_path,
                   protocol_content, tests, results, idx, calls, stderr,
                   exit_code>>
    /\ UNCHANGED fnVars

\* lib.rs:29-30: the policy-broadcast call returns; `let _ =` drops the reply
BroadcastReturn ==
    /\ pc = "PolicyBroadcast"
    /\ inflight
    /\ \E outcome \in RunOutcomes :
          replies' = Append(replies, [send |-> outcome.send,
                                      text |-> send_to_llm(outcome)])
    /\ inflight' = FALSE
    /\ stdout' = Append(stdout, Fmt("Protocol sent. Beginning compliance tests...\n", EMPTY))
    /\ pc' = "LoadingTests"
    /\ UNCHANGED <<args, mdFile, jsonFile, protocol_base, md_path, json_path,
                   protocol_content, tests, results, idx, calls, ret, stderr,
                   exit_code>>
    /\ UNCHANGED fnVars

\* lib.rs:33-34
LoadTests ==
    /\ pc = "LoadingTests"
    /\ LET r == build_compliance_tests(jsonFile)
       IN  IF r.ok
           THEN /\ tests' = r.val
                /\ results' = <<>>
                /\ pc' = "Iterating"
                /\ ret' = ret
           ELSE /\ tests' = tests
                /\ results' = results
                /\ pc' = "Returned"
                /\ ret' = ResultErr(r.err)
    /\ UNCHANGED <<args, mdFile, jsonFile, protocol_base, md_path, json_path,
                   protocol_content, idx, inflight, calls, replies, stdout,
                   stderr, exit_code>>
    /\ UNCHANGED fnVars

\* TestSend that issues the call without announcing the test
TestSendSilent ==
    /\ pc = "Iterating"
    /\ ~inflight
    /\ idx < Len(tests)
    /\ calls' = Append(calls, tests[idx + 1].prompt)
    /\ inflight' = TRUE
    /\ UNCHANGED <<args, mdFile, jsonFile, pc, protocol_base, md_path,
                   json_path, protocol_content, tests, results, idx, replies,
                   ret, stdout, stderr, exit_code>>
    /\ UNCHANGED fnVars

\* TestSend that issues the call of the next test while one is in flight
TestSendPipelined ==
    /\ pc = "Iterating"
    /\ Len(calls) - 1 < Len(tests)
    /\ stdout' = Append(stdout, Fmt("Test: {}", tests[Len(calls)].name))
    /\ calls' = Append(calls, tests[Len(calls)].prompt)
    /\ inflight' = TRUE
    /\ UNCHANGED <<args, mdFile, jsonFile, pc, protocol_base, md_path,
                   json_path, protocol_content, tests, results, idx, replies,
                   ret, stderr, exit_code>>
    /\ UNCHANGED fnVars

\* lib.rs:35-37: the next test is announced and its call is issued
TestSend ==
    /\ pc = "Iterating"
    /\ ~inflight
    /\ idx < Len(tests)
    /\ stdout' = Append(stdout, Fmt("Test: {}", tests[idx + 1].name))
    /\ calls' = Append(calls, tests[idx + 1].prompt)
    /\ inflight' = TRUE
    /\ UNCHANGED <<args, mdFile, jsonFile, pc, protocol_base, md_path,
                   json_path, protocol_content, tests, results, idx, replies,
                   ret, stderr, exit_code>>
    /\ UNCHANGED fnVars

\* lib.rs:39-46: the lines printed for one result
result_lines(result) ==
    << Fmt("Result: {}", IF result.passed THEN <<"P","A","S","S">>
                                          ELSE <<"F","A","I","L">>) >>
    \o (IF result.violations # <<>>
        THEN << Fmt("Violations:", EMPTY) >>
             \o [k \in 1..Len(result.violations) |->
                    Fmt("  - {}", result.violations[k])]
        ELSE <<>>)
    \o << Fmt("AI Response: {}\n", result.response) >>

\* TestReturn that repeats the call of a test whose call failed
TestReturnRetry ==
    /\ pc = "Iterating"
    /\ inflight
    /\ \E outcome \in RunOutcomes :
          LET response == send_to_llm(outcome)
              result == evaluate_response(tests[idx + 1], response)
          IN  /\ replies' = Append(replies, [send |-> outcome.send,
                                             text |-> response])
              /\ IF outcome.send = "ok"
                 THEN /\ stdout' = stdout \o result_lines(result)
                      /\ results' = Append(results, result)
                      /\ idx' = idx + 1
                 ELSE /\ UNCHANGED <<stdout, results, idx>>
    /\ inflight' = FALSE
    /\ UNCHANGED <<args, mdFile, jsonFile, pc, protocol_base, md_path,
                   json_path, protocol_content, tests, calls, ret, stderr,
                   exit_code>>
    /\ UNCHANGED fnVars

\* TestReturn that gives up the run when the call failed
TestReturnAbort ==
    /\ pc = "Iterating"
    /\ inflight
    /\ \E outcome \in RunOutcomes :
          LET response == send_to_llm(outcome)
              result == evaluate_response(tests[idx + 1], response)
          IN  /\ replies' = Append(replies, [send |-> outcome.send,
                                             text |-> response])
              /\ IF outcome.send = "ok"
                 THEN /\ stdout' = stdout \o result_lines(result)
                      /\ results' = Append(results, result)
                      /\ idx' = idx + 1
                      /\ UNCHANGED <<pc, ret>>
                 ELSE /\ pc' = "Returned"
                      /\ ret' = ResultErr(Fmt("{}", response))
                      /\ UNCHANGED <<stdout, results, idx>>
    /\ inflight' = FALSE
    /\ UNCHANGED <<args, mdFile, jsonFile, protocol_base, md_path,
                   json_path, protocol_content, tests, calls, stderr,
                   exit_code>>
    /\ UNCHANGED fnVars

\* TestReturn that puts the new result in front of the earlier ones
TestReturnPrepend ==
    /\ pc = "Iterating"
    /\ inflight
    /\ \E outcome \in RunOutcomes :
          LET response == send_to_llm(outcome)
              result == evaluate_response(tests[idx + 1], response)
          IN  /\ replies' = Append(replies, [send |-> outcome.send,
                                             text |-> response])
              /\ stdout' = stdout \o result_lines(result)
              /\ results' = <<result>> \o results
    /\ idx' = idx + 1
    /\ inflight' = FALSE
    /\ UNCHANGED <<args, mdFile, jsonFile, pc, protocol_base, md_path,
                   json_path, protocol_content, tests, calls, ret, stderr,
                   exit_code>>
    /\ UNCHANGED fnVars

\* TestReturn that marks a reply equal to the sentinel as a transport failure
TestReturnFlagsSentinel ==
    /\ pc = "Iterating"
    /\ inflight
    /\ \E outcome \in RunOutcomes :
          LET response == send_to_llm(outcome)
              result == IF response = SENTINEL
                        THEN TestResult(FALSE, << Fmt("Endpoint unreachable", EMPTY) >>, response)
                        ELSE evaluate_response(tests[idx + 1], response)
          IN  /\ replies' = Append(replies, [send |-> outcome.send,
                                             text |-> response])
              /\ stdout' = stdout \o result_lines(result)
              /\ results' = Append(results, result)
    /\ idx' = idx + 1
    /\ inflight' = FALSE
    /\ UNCHANGED <<args, mdFile, jsonFile, pc, protocol_base, md_path,
                   json_path, protocol_content, tests, calls, ret, stderr,
                   exit_code>>
    /\ UNCHANGED fnVars

\* lib.rs:37-47: the call returns, the reply is evaluated, reported and pushed
TestReturn ==
    /\ pc = "Iterating"
    /\ inflight
    /\ \E outcome \in RunOutcomes :
          LET response == send_to_llm(outcome)
              result == evaluate_response(tests[idx + 1], response)
          IN  /\ replies' = Append(replies, [send |-> outcome.send,
                                             text |-> response])
              /\ stdout' = stdout \o result_lines(result)
              /\ results' = Append(results, result)
    /\ idx' = idx + 1
    /\ inflight' = FALSE
    /\ UNCHANGED <<args, mdFile, jsonFile, pc, protocol_base, md_path,
                   json_path, protocol_content, tests, calls, ret, stderr,
                   exit_code>>
    /\ UNCHANGED fnVars

\* Finish that leaves the report to the caller
FinishNoReport ==
    /\ pc = "Iterating"
    /\ ~inflight
    /\ idx = Len(tests)
    /\ ret' = RESULT_OK
    /\ pc' = "Done"
    /\ UNCHANGED <<args, mdFile, jsonFile, protocol_base, md_path, json_path,
                   protocol_content, tests, results, idx, inflight, calls,
                   replies, stdout, stderr, exit_code>>
    /\ UNCHANGED fnVars

\* lib.rs:49-50: the loop is over; the score is printed and Ok(()) returned
Finish ==
    /\ pc = "Iterating"
    /\ ~inflight
    /\ idx = Len(tests)
    /\ stdout' = stdout \o print_compliance_score(results)
    /\ ret' = RESULT_OK
    /\ pc' = "Done"
    /\ UNCHANGED <<args, mdFile, jsonFile, protocol_base, md_path, json_path,
                   protocol_content, tests, results, idx, inflight, calls,
                   replies, stderr, exit_code>>
    /\ UNCHANGED fnVars

\* MainExit that prints the error and still exits with status 0
MainExitAlwaysZero ==
    /\ pc \in {"Done", "Returned"}
    /\ IF ret.tag = "Err"
       THEN stderr' = Append(stderr, ret.err)
       ELSE stderr' = stderr
    /\ exit_code' = 0
    /\ pc' = "Exited"
    /\ UNCHANGED <<args, mdFile, jsonFile, protocol_base, md_path, json_path,
                   protocol_content, tests, results, idx, inflight, calls,
                   replies, ret, stdout>>
    /\ UNCHANGED fnVars

\* generate_pcs.rs:9-13: main prints an Err and exits 1, else exits 0
MainExit ==
    /\ pc \in {"Done", "Returned"}
    /\ IF ret.tag = "Err"
       THEN /\ stderr' = Append(stderr, ret.err)
            /\ exit_code' = 1
       ELSE /\ stderr' = stderr
            /\ exit_code' = 0
    /\ pc' = "Exited"
    /\ UNCHANGED <<args, mdFile, jsonFile, protocol_base, md_path, json_path,
                   protocol_content, tests, results, idx, inflight, calls,
                   replies, ret, stdout>>
    /\ UNCHANGED fnVars

Init ==
    /\ RunInit
    /\ FnIdle

Next ==
    \/ Enter
    \/ ValidateInputs
    \/ BroadcastSend
    \/ BroadcastReturn
    \/ LoadTests
    \/ TestSend
    \/ TestReturn
    \/ Finish
    \/ MainExit

Spec ==
    Init /\ [][Next]_vars

\* the program is sequential and runs on: every enabled step is taken, and a
\* call that has been issued returns
LiveSpec ==
    Spec /\ WF_vars(Next)

(***************************************************************************)
(* evaluate_response driven alone, on every test and response of the       *)
(* bounded sets below                                                      *)
(***************************************************************************)
EvalAlphabet ==
    { "a", "A", "b" }

EvalStrings ==
    SeqsUpTo(EvalAlphabet, MaxLen)

\* forbidden terms: the empty term, a lower-case one, a mixed-case one
ForbiddenTerms ==
    { EMPTY, <<"a">>, <<"A","b">> }

EvalTests ==
    { [name |-> EMPTY, prompt |-> EMPTY, expected_start |-> e, forbidden |-> f] :
        e \in EvalStrings, f \in SeqsUpTo(ForbiddenTerms, MaxForbidden) }

EvalResponses ==
    EvalStrings \cup { SENTINEL }

RunIdle ==
    /\ args = <<BIN>>
    /\ mdFile = File("missing", EMPTY, JNull)
    /\ jsonFile = File("missing", EMPTY, JNull)
    /\ pc = "Idle"
    /\ protocol_base = EMPTY
    /\ md_path = EMPTY
    /\ json_path = EMPTY
    /\ protocol_content = EMPTY
    /\ tests = <<>>
    /\ results = <<>>
    /\ idx = 0
    /\ inflight = FALSE
    /\ calls = <<>>
    /\ replies = <<>>
    /\ ret = NO_RESULT
    /\ stdout = <<>>
    /\ stderr = <<>>
    /\ exit_code = NO_EXIT

EvalInit ==
    /\ RunIdle
    /\ fn_test \in EvalTests
    /\ fn_response \in EvalResponses
    /\ fn_result = TestResult(TRUE, <<>>, EMPTY)
    /\ fn_done = FALSE
    /\ ScoreIdle
    /\ LoadIdle
    /\ AskIdle
    /\ CliIdle

\* one call of evaluate_response(test, response)
Evaluate ==
    /\ ~fn_done
    /\ fn_result' = evaluate_response(fn_test, fn_response)
    /\ fn_done' = TRUE
    /\ UNCHANGED <<fn_test, fn_response>>
    /\ UNCHANGED runVars
    /\ UNCHANGED <<scoreVars, loadVars, askVars, cliVars>>

EvalNext ==
    Evaluate

EvalSpec ==
    EvalInit /\ [][EvalNext]_vars

(***************************************************************************)
(* Vocabulary of the properties                                            *)
(***************************************************************************)
\* the error of the taxonomy that a returned Err stands for
ErrorKind(r) ==
    IF r.tag # "Err" THEN "none"
    ELSE IF r.err.fmt = ERR_MISSING_MD THEN "MissingPolicyDocument"
    ELSE IF r.err.fmt = ERR_MISSING_JSON THEN "MissingSpecDocument"
    ELSE IF r.err.fmt = ERR_READ_MD THEN "UnreadablePolicyDocument"
    ELSE IF r.err.fmt \in {ERR_READ_JSON, ERR_INVALID_JSON} THEN "MalformedInput"
    ELSE "other"

PreconditionErrors ==
    { "MissingPolicyDocument", "MissingSpecDocument", "UnreadablePolicyDocument" }

\* run_protocol_compliance has returned to main
HasReturned ==
    pc \in {"Done", "Returned", "Exited"}

\* the lines of stdout that open a score report
ReportCount ==
    Cardinality({ k \in 1..Len(stdout) :
                    stdout[k] = Fmt("=== PROTOCOL COMPLIANCE REPORT ===", EMPTY) })

\* both documents can be read and the specification is an array
ValidDocuments ==
    /\ mdFile.kind = "text"
    /\ jsonFile.kind = "text"
    /\ jsonFile.doc.t = "array"

\* the number of test cases the specification document holds
NumTests ==
    Len(jsonFile.doc.a)

\* the reply of the call made for test i (call 1 is the policy broadcast)
ReplyOf(i) ==
    replies[i + 1]

(***************************************************************************)
(* C1: when the policy document is missing, or the specification document  *)
(* is missing, or the policy exists but cannot be read, the run never      *)
(* leaves validation, it returns one of the three precondition errors, the *)
(* one returned names a defect that is present, and no endpoint call is    *)
(* ever made.                                                              *)
(***************************************************************************)
InputDefect ==
    \/ mdFile.kind = "missing"
    \/ jsonFile.kind = "missing"
    \/ mdFile.kind = "unreadable"

C1_PreconditionFailureMakesNoCall ==
    InputDefect =>
        /\ Len(calls) = 0
        /\ ~inflight
        /\ pc \in {"Idle", "ValidatingInputs", "Returned", "Exited"}
        /\ HasReturned =>
              /\ ErrorKind(ret) \in PreconditionErrors
              /\ ErrorKind(ret) = "MissingPolicyDocument" => mdFile.kind = "missing"
              /\ ErrorKind(ret) = "MissingSpecDocument" => jsonFile.kind = "missing"
              /\ ErrorKind(ret) = "UnreadablePolicyDocument" => mdFile.kind = "unreadable"

C1_Witness ==
    /\ pc = "Returned"
    /\ mdFile.kind = "unreadable"
    /\ jsonFile.kind = "text"
    /\ ErrorKind(ret) = "UnreadablePolicyDocument"
    /\ Len(calls) = 0

(***************************************************************************)
(* C2: with both documents valid and n test cases in the specification,    *)
(* the run never makes more than n+1 endpoint calls, and when it is done   *)
(* it has made exactly n+1 (the broadcast, then one per test case with     *)
(* that test's prompt) and holds exactly n results, failed calls included. *)
(***************************************************************************)
C2_ExactlyNPlusOneCalls ==
    ValidDocuments =>
        /\ Len(calls) <= NumTests + 1
        /\ Len(replies) <= Len(calls)
        /\ pc \in {"Done", "Exited"} =>
              /\ Len(calls) = NumTests + 1
              /\ Len(replies) = NumTests + 1
              /\ Len(results) = NumTests
              /\ calls[1] = INIT_PROMPT \o mdFile.text
              /\ \A i \in 1..NumTests :
                    calls[i + 1] = ComplianceTest(jsonFile.doc.a[i]).prompt

C2_Witness ==
    /\ pc = "Done"
    /\ ValidDocuments
    /\ NumTests = 2
    /\ Len(calls) = 3
    /\ Len(results) = 2
    /\ ReplyOf(1).send # "ok"

(***************************************************************************)
(* C3: the result of every test case whose endpoint call failed at         *)
(* transport level (send_to_llm returned the sentinel) has passed = FALSE. *)
(***************************************************************************)
C3_FailedCallGivesFailingResult ==
    \A i \in 1..Len(results) :
        (ReplyOf(i).send # "ok" /\ ReplyOf(i).text = SENTINEL) => ~results[i].passed

(***************************************************************************)
(* C4: once the run has loaded its n test cases it eventually reaches Done *)
(* with exactly n results, whatever the endpoint calls return; the loaded  *)
(* test cases do not change on the way.                                    *)
(***************************************************************************)
C4_LoadedRunReachesDone ==
    /\ [][pc = "Iterating" => tests' = tests]_vars
    /\ [][pc = "Iterating" => pc' \in {"Iterating", "Done"}]_vars
    /\ (pc = "Iterating") ~> (pc = "Done" /\ Len(results) = Len(tests))

C4_Witness ==
    /\ pc = "Done"
    /\ Len(tests) = 2
    /\ Len(results) = 2
    /\ replies[1].send # "ok"
    /\ ReplyOf(1).send # "ok"
    /\ ReplyOf(2).send = "ok"

(***************************************************************************)
(* C5: when both documents exist, the policy is readable and the           *)
(* specification cannot be parsed, the run fails with MalformedInput       *)
(* having made no endpoint call and produced no result and no report.      *)
(***************************************************************************)
C5_MalformedInputBeforeAnyCall ==
    (HasReturned /\ ErrorKind(ret) = "MalformedInput") =>
        /\ Len(calls) = 0
        /\ results = <<>>
        /\ ReportCount = 0

(***************************************************************************)
(* C6: each input defect has its own error.  Once validation is over: a    *)
(* missing policy gave MissingPolicyDocument; an existing policy with a    *)
(* missing specification gave MissingSpecDocument; two existing files with *)
(* an unreadable policy gave UnreadablePolicyDocument; and with none of    *)
(* these defects none of the three errors is ever returned.                *)
(***************************************************************************)
ValidationOver ==
    pc \notin {"Idle", "ValidatingInputs"}

C6_EachDefectItsOwnError ==
    ValidationOver =>
        /\ mdFile.kind = "missing" =>
              ErrorKind(ret) = "MissingPolicyDocument"
        /\ (mdFile.kind # "missing" /\ jsonFile.kind = "missing") =>
              ErrorKind(ret) = "MissingSpecDocument"
        /\ (mdFile.kind = "unreadable" /\ jsonFile.kind # "missing") =>
              ErrorKind(ret) = "UnreadablePolicyDocument"
        /\ ~InputDefect => ErrorKind(ret) \notin PreconditionErrors
        /\ ErrorKind(ret) = "MissingPolicyDocument" => ret.err.arg = md_path
        /\ ErrorKind(ret) = "MissingSpecDocument" => ret.err.arg = json_path

C6_Witness ==
    /\ pc = "Returned"
    /\ mdFile.kind = "missing"
    /\ jsonFile.kind = "missing"
    /\ ErrorKind(ret) = "MissingPolicyDocument"

(***************************************************************************)
(* C7: the phase of the run only advances along Idle, ValidatingInputs,    *)
(* PolicyBroadcast, Iterating, Done, one phase at a time; the broadcast    *)
(* call is made after validation and before any per-test call; the tests   *)
(* are visited at indices 0, 1, .., n-1 in that order, each once, and Done *)
(* is reached only after the last.                                         *)
(***************************************************************************)
\* the phase of the state machine a position belongs to; loading the tests
\* closes the broadcast phase; 5 stands for a position outside the five
\* phases (the run has failed, or the process has exited)
PhaseRank(p) ==
    CASE p = "Idle" -> 0
      [] p = "ValidatingInputs" -> 1
      [] p \in {"PolicyBroadcast", "LoadingTests"} -> 2
      [] p = "Iterating" -> 3
      [] p = "Done" -> 4
      [] OTHER -> 5

C7_PhasesInOrder ==
    /\ [][PhaseRank(pc') < 5 =>
            PhaseRank(pc') \in {PhaseRank(pc), PhaseRank(pc) + 1}]_vars
    /\ [][pc = "Done" => pc' = "Exited"]_vars
    /\ [][calls' # calls =>
            /\ Len(calls') = Len(calls) + 1
            /\ IF Len(calls) = 0
               THEN pc = "PolicyBroadcast" /\ idx = 0
               ELSE /\ pc = "Iterating"
                    /\ Len(calls) = idx + 1
                    /\ calls'[Len(calls')] = tests[idx + 1].prompt]_vars
    /\ [][idx' # idx =>
            /\ pc = "Iterating"
            /\ idx' = idx + 1
            /\ Len(calls) = idx' + 1
            /\ Len(results') = idx']_vars
    /\ [](pc \in {"Iterating", "Done"} => Len(replies) >= 1)
    /\ [](pc = "Done" => (idx = Len(tests) /\ Len(calls) = Len(tests) + 1))

C7_Witness ==
    /\ pc = "Done"
    /\ Len(tests) = 2
    /\ idx = 2
    /\ Len(calls) = 3

(***************************************************************************)
(* C8: the results have the length and the order of the specification      *)
(* array: the tests are built record by record, the i-th result is the     *)
(* evaluation of the i-th test on the reply of the call made with that     *)
(* test's prompt, and an empty array gives no test, no result and no error.*)
(***************************************************************************)
C8_ResultsFollowDocumentOrder ==
    (ValidDocuments /\ pc \in {"Iterating", "Done", "Exited"}) =>
        /\ Len(tests) = NumTests
        /\ \A i \in 1..NumTests :
              /\ tests[i] = ComplianceTest(jsonFile.doc.a[i])
              /\ LET item == jsonFile.doc.a[i]
                 IN  (item.t = "object" /\ "prompt" \in DOMAIN item.o)
                        => tests[i].prompt = item.o.prompt.s
        /\ Len(results) <= NumTests
        /\ \A i \in 1..Len(results) :
              /\ calls[i + 1] = tests[i].prompt
              /\ results[i] = evaluate_response(tests[i], ReplyOf(i).text)
              /\ results[i].response = ReplyOf(i).text
        /\ pc \in {"Done", "Exited"} =>
              /\ Len(results) = NumTests
              /\ ret = RESULT_OK

C8_Witness ==
    /\ pc = "Done"
    /\ ValidDocuments
    /\ NumTests = 2
    /\ results[1].passed
    /\ ~results[2].passed

\* the empty array: a run that ends without error, test or result
C8_WitnessEmpty ==
    /\ pc = "Done"
    /\ ValidDocuments
    /\ NumTests = 0
    /\ results = <<>>

IsLiteralPrefix(p, s) ==
    /\ Len(p) <= Len(s)
    /\ \A k \in 1..Len(p) : s[k] = p[k]

PrefixViolation ==
    Fmt("Missing mandatory response format", EMPTY)

PrefixViolationCount(r) ==
    Cardinality({ k \in 1..Len(r.violations) : r.violations[k] = PrefixViolation })

PrefixCheckFails(test, response) ==
    /\ test.expected_start # EMPTY
    /\ ~IsLiteralPrefix(test.expected_start, response)

C10_PrefixViolationIffPrefixMissing ==
    fn_done =>
        /\ PrefixCheckFails(fn_test, fn_response) =>
              /\ PrefixViolationCount(fn_result) = 1
              /\ fn_result.violations[1] = PrefixViolation
              /\ ~fn_result.passed
        /\ ~PrefixCheckFails(fn_test, fn_response) =>
              PrefixViolationCount(fn_result) = 0
        /\ fn_test.expected_start = EMPTY =>
              PrefixViolationCount(fn_result) = 0

\* a response that differs from the expected prefix only in letter case
C10_Witness ==
    /\ fn_done
    /\ fn_test.expected_start = <<"A">>
    /\ fn_response = <<"a", "b">>
    /\ fn_test.forbidden = <<>>
    /\ ~fn_result.passed
    /\ fn_result.violations = <<PrefixViolation>>

\* the empty response against a non-empty expected_start
C10_WitnessEmptyResponse ==
    /\ fn_done
    /\ fn_test.expected_start # EMPTY
    /\ fn_response = EMPTY
    /\ PrefixViolationCount(fn_result) = 1

(***************************************************************************)
(* C11: for every entry f of test.forbidden, a response that contains f in *)
(* any letter-casing gets passed = FALSE and, once per such entry, the     *)
(* violation "Contains forbidden behavior: '<f>'" with f spelled as in the *)
(* test; an entry that the response contains in no casing gives no         *)
(* violation, so a response containing none gets no forbidden violation.   *)
(***************************************************************************)
\* the two characters are the same letter in either case, or the same sign
SameIgnoringCase(c, d) ==
    \/ c = d
    \/ \E k \in 1..Len(UPPER) : {c, d} = {UPPER[k], LOWER[k]}

\* s contains f at some offset, letter case disregarded
ContainsAnyCasing(s, f) ==
    \E off \in 0..(Len(s) - Len(f)) :
        \A k \in 1..Len(f) : SameIgnoringCase(s[off + k], f[k])

ForbiddenViolation(f) ==
    Fmt("Contains forbidden behavior: '{}'", f)

\* the violations of r that are forbidden violations, in order
ForbiddenViolations(r) ==
    SelectSeq(r.violations, LAMBDA v : v.fmt = "Contains forbidden behavior: '{}'")

\* the entries of the list that the response contains in some casing, in order
MatchingEntries(list, response) ==
    SelectSeq(list, LAMBDA f : ContainsAnyCasing(response, f))

C11_ForbiddenAnyCasing ==
    fn_done =>
        /\ \A k \in 1..Len(fn_test.forbidden) :
              LET f == fn_test.forbidden[k]
              IN  IF ContainsAnyCasing(fn_response, f)
                  THEN /\ ~fn_result.passed
                       /\ \E j \in 1..Len(fn_result.violations) :
                             fn_result.violations[j] = ForbiddenViolation(f)
                  ELSE \A j \in 1..Len(fn_result.violations) :
                             fn_result.violations[j] # ForbiddenViolation(f)
        /\ Len(ForbiddenViolations(fn_result))
              = Len(MatchingEntries(fn_test.forbidden, fn_response))

\* a mixed-case entry met in another casing
C11_Witness ==
    /\ fn_done
    /\ fn_test.forbidden = << <<"A","b">> >>
    /\ fn_response = <<"a","b">>
    /\ fn_test.expected_start = EMPTY
    /\ ~fn_result.passed
    /\ fn_result.violations = << ForbiddenViolation(<<"A","b">>) >>

(***************************************************************************)
(* C12: every TestResult made by evaluate_response, and every TestResult   *)
(* in the result sequence of a run, has an empty violations list exactly   *)
(* when passed is TRUE.                                                    *)
(***************************************************************************)
C12_ViolationsEmptyIffPassed ==
    /\ fn_done => ((fn_result.violations = <<>>) <=> fn_result.passed)
    /\ \A i \in 1..Len(results) :
          (results[i].violations = <<>>) <=> results[i].passed

\* a result that failed only through a forbidden term
C12_Witness ==
    /\ fn_done
    /\ ~fn_result.passed
    /\ Len(fn_result.violations) = 1
    /\ Len(ForbiddenViolations(fn_result)) = 1

\* a lower-case entry met in upper case
C11_WitnessUpperResponse ==
    /\ fn_done
    /\ fn_test.forbidden = << <<"a">> >>
    /\ fn_response = <<"b","A">>
    /\ fn_result.violations = << ForbiddenViolation(<<"a">>) >>

(***************************************************************************)
(* print_compliance_score driven alone, on every batch of at most MaxBatch *)
(* results drawn from the pool below                                       *)
(***************************************************************************)
\* results as the tests build them: passed with no violation, failed with
\* one or two
ResultPool ==
    { TestResult(TRUE, <<>>, <<"r">>),
      TestResult(TRUE, <<>>, EMPTY),
      TestResult(FALSE, << Fmt("v", EMPTY) >>, <<"r">>),
      TestResult(FALSE, << Fmt("v", EMPTY), Fmt("w", EMPTY) >>, EMPTY) }

ScoreInit ==
    /\ RunIdle
    /\ EvalIdle
    /\ LoadIdle
    /\ AskIdle
    /\ CliIdle
    /\ sc_results \in SeqsUpTo(ResultPool, MaxBatch)
    /\ sc_out = <<>>
    /\ sc_done = FALSE

\* one call of print_compliance_score(&results)
Summarize ==
    /\ ~sc_done
    /\ sc_out' = print_compliance_score(sc_results)
    /\ sc_done' = TRUE
    /\ sc_results' = sc_results
    /\ UNCHANGED runVars
    /\ UNCHANGED <<evalVars, loadVars, askVars, cliVars>>

ScoreNext ==
    Summarize

ScoreSpec ==
    ScoreInit /\ [][ScoreNext]_vars

(***************************************************************************)
(* C13: for every non-empty batch the report shows total = the length of   *)
(* the batch, passed = the number of results with passed = TRUE, failed =  *)
(* total - passed, and percent = 100 * passed / total to one decimal:      *)
(* 100.0 when all pass, 0.0 when all fail, 50.0 for one pass and one fail; *)
(* the batch itself is left as it was.                                     *)
(***************************************************************************)
DigitValue(c) ==
    CHOOSE d \in 0..9 : Digit(d) = c

RECURSIVE ParseDecimal(_)
\* the number a text of decimal digits stands for
ParseDecimal(text) ==
    IF text = <<>> THEN 0
    ELSE 10 * ParseDecimal(SubSeq(text, 1, Len(text) - 1))
            + DigitValue(text[Len(text)])

\* the number of tenths a text "<digits>.<digit>" stands for
ParseTenths(text) ==
    10 * ParseDecimal(SubSeq(text, 1, Len(text) - 2)) + DigitValue(text[Len(text)])

NumPassed(rs) ==
    Cardinality({ i \in 1..Len(rs) : rs[i].passed })

Abs(x) ==
    IF x < 0 THEN 0 - x ELSE x

C13_ReportOfNonEmptyBatch ==
    /\ [](  (sc_done /\ Len(sc_results) > 0) =>
              LET total == Len(sc_results)
                  passed == NumPassed(sc_results)
                  pct == sc_out[5].arg
              IN  /\ Len(sc_out) = 5
                  /\ sc_out[2].fmt = "Total Tests: {}"
                  /\ ParseDecimal(sc_out[2].arg) = total
                  /\ sc_out[3].fmt = "Passed: {}"
                  /\ ParseDecimal(sc_out[3].arg) = passed
                  /\ sc_out[4].fmt = "Failed: {}"
                  /\ ParseDecimal(sc_out[4].arg) = total - passed
                  /\ ParseDecimal(sc_out[3].arg) + ParseDecimal(sc_out[4].arg) = total
                  /\ sc_out[5].fmt = "COMPLIANCE SCORE: {:.1}%"
                  /\ Len(pct) >= 3
                  /\ pct[Len(pct) - 1] = "."
                  /\ 2 * Abs(ParseTenths(pct) * total - 1000 * passed) <= total
                  /\ passed = total => pct = <<"1","0","0",".","0">>
                  /\ passed = 0 => pct = <<"0",".","0">>
                  /\ 2 * passed = total => pct = <<"5","0",".","0">> )
    /\ [][sc_results' = sc_results]_vars

\* an all-pass batch of three
C13_Witness ==
    /\ sc_done
    /\ Len(sc_results) = 3
    /\ NumPassed(sc_results) = 3
    /\ sc_out[5].arg = <<"1","0","0",".","0">>

\* one pass and one fail
C13_WitnessMixed ==
    /\ sc_done
    /\ Len(sc_results) = 2
    /\ NumPassed(sc_results) = 1
    /\ sc_out[5].arg = <<"5","0",".","0">>

\* two of three passed: a quotient that has to be rounded
C13_WitnessRounded ==
    /\ sc_done
    /\ Len(sc_results) = 3
    /\ NumPassed(sc_results) = 2
    /\ sc_out[5].arg = <<"6","6",".","7">>

(***************************************************************************)
(* build_compliance_tests driven alone: on a missing or unreadable file,   *)
(* on text that is no JSON, on every top-level shape, on the arrays the    *)
(* runner explores, and on every one-record array whose record has each    *)
(* key absent, well-typed or ill-typed                                     *)
(***************************************************************************)
ABSENT ==
    [t |-> "absent"]

X ==
    <<"x">>

\* the object holding the keys whose value is not ABSENT
Record(name, prompt, expected_start, forbidden) ==
    LET all == [name |-> name, prompt |-> prompt,
                expected_start |-> expected_start, forbidden |-> forbidden]
        present == { k \in DOMAIN all : all[k] # ABSENT }
    IN  JObj([k \in present |-> all[k]])

NameValues ==
    { ABSENT, JStr(T1), JNum }

PromptValues ==
    { ABSENT, JStr(P1), JNull }

ExpectedStartValues ==
    { ABSENT, JStr(HI), JArr(<< JStr(HI) >>) }

\* forbidden: absent, null, a scalar, an object, lists of strings, a list
\* mixing strings with other values, a list without any string
ForbiddenValues ==
    { ABSENT, JNull, JStr(BAD), JNum, JObj([bad |-> JStr(BAD)]),
      JArr(<<>>), JArr(<< JStr(BAD), JStr(X) >>),
      JArr(<< JStr(BAD), JNum, JStr(X) >>), JArr(<< JNull, JNum >>) }

RecordPool ==
    { Record(n, p, e, f) : n \in NameValues, p \in PromptValues,
                           e \in ExpectedStartValues, f \in ForbiddenValues }

TopLevelNonArrays ==
    { JNull, JNum, JStr(T1), JObj([name |-> JStr(T1)]),
      Record(JStr(T1), JStr(P1), JStr(HI), JArr(<< JStr(BAD) >>)) }

LoadDocs ==
    JsonDocs \cup TopLevelNonArrays
        \cup { JArr(<< r >>) : r \in RecordPool }
        \cup { JArr(<< JStr(T1) >>), JArr(<< JNull >>), JArr(<< JArr(<<>>) >>) }

LoadFiles ==
    JsonFiles \cup { File("text", EMPTY, doc) : doc \in LoadDocs }

LoadInit ==
    /\ RunIdle
    /\ EvalIdle
    /\ ScoreIdle
    /\ AskIdle
    /\ CliIdle
    /\ ld_file \in LoadFiles
    /\ ld_out = Ok(<<>>)
    /\ ld_done = FALSE

\* one call of build_compliance_tests(json_path)
Load ==
    /\ ~ld_done
    /\ ld_out' = build_compliance_tests(ld_file)
    /\ ld_done' = TRUE
    /\ ld_file' = ld_file
    /\ UNCHANGED runVars
    /\ UNCHANGED <<evalVars, scoreVars, askVars, cliVars>>

LoadNext ==
    Load

LoadSpec ==
    LoadInit /\ [][LoadNext]_vars

\* the document is JSON whose top level is an array
LoadedArray ==
    /\ ld_file.kind = "text"
    /\ ld_file.doc.t = "array"

StringKeys ==
    { "name", "prompt", "expected_start" }

\* the string elements of a JSON array, in order, as texts
StringElements(items) ==
    LET strings == SelectSeq(items, LAMBDA v : v.t = "string")
    IN  [k \in 1..Len(strings) |-> strings[k].s]

(***************************************************************************)
(* C14: for every record of the array, each of name, prompt and            *)
(* expected_start is the record's string value for that key, or the empty  *)
(* string when the key is missing, and forbidden is the empty list when    *)
(* its key is missing; a missing key never makes the load fail.            *)
(***************************************************************************)
C14_MissingKeysDefault ==
    (ld_done /\ LoadedArray) =>
        /\ ld_out.ok
        /\ Len(ld_out.val) = Len(ld_file.doc.a)
        /\ \A i \in 1..Len(ld_file.doc.a) :
              LET item == ld_file.doc.a[i]
                  test == ld_out.val[i]
              IN  item.t = "object" =>
                    /\ \A key \in StringKeys :
                          /\ key \notin DOMAIN item.o => test[key] = EMPTY
                          /\ (key \in DOMAIN item.o /\ item.o[key].t = "string")
                                => test[key] = item.o[key].s
                    /\ "forbidden" \notin DOMAIN item.o => test.forbidden = <<>>

\* the record {"prompt": "p1"}
C14_Witness ==
    /\ ld_done
    /\ ld_file.doc = JArr(<< JObj([prompt |-> JStr(P1)]) >>)
    /\ ld_out.ok
    /\ ld_out.val = << [name |-> EMPTY, prompt |-> P1,
                        expected_start |-> EMPTY, forbidden |-> <<>>] >>

\* a record with every key present and well-typed
C14_WitnessFullRecord ==
    /\ ld_done
    /\ ld_file.doc = JArr(<< TestItem(T2, P2, HI, <<BAD>>) >>)
    /\ ld_out.val = << [name |-> T2, prompt |-> P2,
                        expected_start |-> HI, forbidden |-> <<BAD>>] >>

(***************************************************************************)
(* C15 as stated: a record whose forbidden value is present and is not a   *)
(* list of strings only (null, a scalar, an object, a list with at least   *)
(* one element that is no string) gives an empty forbidden list.           *)
(***************************************************************************)
ListOfStringsOnly(v) ==
    /\ v.t = "array"
    /\ \A k \in 1..Len(v.a) : v.a[k].t = "string"

C15_NotListOfStringsGivesEmpty ==
    (ld_done /\ LoadedArray) =>
        \A i \in 1..Len(ld_file.doc.a) :
            LET item == ld_file.doc.a[i]
            IN  (/\ item.t = "object"
                 /\ "forbidden" \in DOMAIN item.o
                 /\ ~ListOfStringsOnly(item.o.forbidden))
                    => ld_out.val[i].forbidden = <<>>

(***************************************************************************)
(* C15 amended: a forbidden value that is present and is no list (null, a  *)
(* scalar, an object) gives an empty forbidden list; a list gives its      *)
(* string elements in their order, the elements that are no strings being  *)
(* dropped, so it gives the empty list only when none of its elements is a *)
(* string.                                                                 *)
(***************************************************************************)
C15_NonStringsAreDropped ==
    (ld_done /\ LoadedArray) =>
        \A i \in 1..Len(ld_file.doc.a) :
            LET item == ld_file.doc.a[i]
                got == ld_out.val[i].forbidden
            IN  (item.t = "object" /\ "forbidden" \in DOMAIN item.o) =>
                    IF item.o.forbidden.t = "array"
                    THEN /\ got = StringElements(item.o.forbidden.a)
                         /\ (got = <<>>) <=>
                               (\A k \in 1..Len(item.o.forbidden.a) :
                                    item.o.forbidden.a[k].t # "string")
                    ELSE got = <<>>

\* the list ["bad", <number>, "x"]
C15_Witness ==
    /\ ld_done
    /\ LoadedArray
    /\ Len(ld_file.doc.a) = 1
    /\ ld_file.doc.a[1].t = "object"
    /\ "forbidden" \in DOMAIN ld_file.doc.a[1].o
    /\ ld_file.doc.a[1].o.forbidden = JArr(<< JStr(BAD), JNum, JStr(X) >>)
    /\ ld_out.val[1].forbidden = << BAD, X >>

(***************************************************************************)
(* C16 as stated: the load fails with MalformedInput whenever the path     *)
(* cannot be read, the text is no JSON, or the top level of the document   *)
(* is no array.                                                            *)
(***************************************************************************)
LoadErrorKind ==
    IF ld_out.ok THEN "none" ELSE ErrorKind(ResultErr(ld_out.err))

C16_NonArrayIsMalformedInput ==
    (ld_done /\ (\/ ld_file.kind # "text"
                 \/ ld_file.doc = INVALID_JSON
                 \/ ld_file.doc.t # "array"))
        => (~ld_out.ok /\ LoadErrorKind = "MalformedInput")

(***************************************************************************)
(* C16 amended: the load fails with MalformedInput when the path cannot be *)
(* read (the message says the file could not be read) and when the text is *)
(* no JSON (the message says the format is invalid); a JSON document whose *)
(* top level is no array (an object, a string, a number, null) does not    *)
(* fail: it loads as an empty sequence of tests.                           *)
(***************************************************************************)
C16_NonArrayLoadsEmpty ==
    ld_done =>
        /\ ld_file.kind # "text" =>
              /\ ~ld_out.ok
              /\ ld_out.err.fmt = ERR_READ_JSON
              /\ LoadErrorKind = "MalformedInput"
        /\ (ld_file.kind = "text" /\ ld_file.doc = INVALID_JSON) =>
              /\ ~ld_out.ok
              /\ ld_out.err.fmt = ERR_INVALID_JSON
              /\ LoadErrorKind = "MalformedInput"
        /\ (/\ ld_file.kind = "text"
            /\ ld_file.doc # INVALID_JSON
            /\ ld_file.doc.t # "array") => ld_out = Ok(<<>>)

\* null, a number or a string at the top level
C16_Witness ==
    /\ ld_done
    /\ ld_file.kind = "text"
    /\ ld_file.doc \in { JNull, JNum, JStr(T1) }
    /\ ld_out = Ok(<<>>)

\* text that is no JSON
C16_WitnessInvalid ==
    /\ ld_done
    /\ ld_file.kind = "text"
    /\ ld_file.doc = INVALID_JSON
    /\ ~ld_out.ok

(***************************************************************************)
(* C17: the load fails only when there is no JSON document to decode (the  *)
(* file cannot be read or its text does not parse).  Every JSON document   *)
(* loads: one whose top level is no array gives no test; an array gives    *)
(* one test per element, in which a string field whose value is missing or *)
(* no string is empty and a forbidden value that is missing or no list is  *)
(* the empty list, whatever the element is.                                *)
(***************************************************************************)
C17_ValidJsonAlwaysLoads ==
    ld_done =>
        /\ ~ld_out.ok <=> (ld_file.kind # "text" \/ ld_file.doc = INVALID_JSON)
        /\ ~ld_out.ok => LoadErrorKind = "MalformedInput"
        /\ (ld_out.ok /\ ld_file.doc.t # "array") => ld_out.val = <<>>
        /\ (ld_out.ok /\ ld_file.doc.t = "array") =>
              /\ Len(ld_out.val) = Len(ld_file.doc.a)
              /\ \A i \in 1..Len(ld_file.doc.a) :
                    LET item == ld_file.doc.a[i]
                        test == ld_out.val[i]
                        has(key) == item.t = "object" /\ key \in DOMAIN item.o
                    IN  /\ \A key \in StringKeys :
                              (~has(key) \/ item.o[key].t # "string")
                                  => test[key] = EMPTY
                        /\ (~has("forbidden") \/ item.o.forbidden.t # "array")
                              => test.forbidden = <<>>

\* a JSON object at the top level
C17_Witness ==
    /\ ld_done
    /\ ld_file.kind = "text"
    /\ ld_file.doc = JObj([name |-> JStr(T1)])
    /\ ld_out.ok
    /\ ld_out.val = <<>>

\* an array whose element is a number
C17_WitnessMalformedRecord ==
    /\ ld_done
    /\ ld_file.doc = JArr(<< JNum >>)
    /\ ld_out.ok
    /\ ld_out.val = << [name |-> EMPTY, prompt |-> EMPTY,
                        expected_start |-> EMPTY, forbidden |-> <<>>] >>

(***************************************************************************)
(* send_to_llm driven alone, on every way a call can end: send() fails     *)
(* (connection refused, timeout, name resolution), or a reply arrives with *)
(* a success or an error status and a body that is no JSON, JSON without   *)
(* the response field, or JSON with a response field of each type          *)
(***************************************************************************)
SendFailures ==
    { "refused", "timeout", "dns" }

\* a success, a client error, a server error
Statuses ==
    { 200, 404, 500 }

ReplyBodies ==
    { MALFORMED_BODY, JNull, JNum, JStr(<<"a">>), JArr(<< JStr(<<"a">>) >>),
      JObj([error |-> JStr(<<"a">>)]) }
        \cup { JObj([response |-> v]) :
                  v \in { JNull, JNum, JArr(<< JStr(<<"a">>) >>),
                          JObj([text |-> JStr(<<"a">>)]) } }
        \cup { JObj([response |-> JStr(s)]) : s \in EvalStrings \cup { SENTINEL } }

AskOutcomes ==
    { Outcome(f, 0, MALFORMED_BODY) : f \in SendFailures }
        \cup { Outcome("ok", st, body) : st \in Statuses, body \in ReplyBodies }

AskInit ==
    /\ RunIdle
    /\ EvalIdle
    /\ ScoreIdle
    /\ LoadIdle
    /\ CliIdle
    /\ ask_outcome \in AskOutcomes
    /\ ask_out = EMPTY
    /\ ask_done = FALSE

\* one call of send_to_llm(client, prompt)
Ask ==
    /\ ~ask_done
    /\ ask_out' = send_to_llm(ask_outcome)
    /\ ask_done' = TRUE
    /\ ask_outcome' = ask_outcome
    /\ UNCHANGED runVars
    /\ UNCHANGED <<evalVars, scoreVars, loadVars, cliVars>>

AskNext ==
    Ask

AskSpec ==
    AskInit /\ [][AskNext]_vars

\* a reply arrived and its body is JSON
WellFormedReply ==
    /\ ask_outcome.send = "ok"
    /\ ask_outcome.body # MALFORMED_BODY

\* the reply's body is an object whose response field is a string
HasTextField ==
    /\ WellFormedReply
    /\ ask_outcome.body.t = "object"
    /\ "response" \in DOMAIN ask_outcome.body.o
    /\ ask_outcome.body.o.response.t = "string"

\* the five kinds of failure the specification lists
TransportFailure ==
    \/ ask_outcome.send \in SendFailures
    \/ ask_outcome.status \notin 200..299
    \/ ask_outcome.body = MALFORMED_BODY

(***************************************************************************)
(* C18 as stated: on every transport-level failure (connection refused,    *)
(* timeout, name resolution, a status that is no success, a body that is   *)
(* malformed) the call returns the sentinel.                               *)
(***************************************************************************)
C18_EveryFailureGivesSentinel ==
    (ask_done /\ TransportFailure) => ask_out = SENTINEL

(***************************************************************************)
(* C18 amended: the call returns the sentinel exactly when no reply        *)
(* arrives (connection refused, timeout, name resolution), unless a reply  *)
(* carries the sentinel as its text.  A reply whose body is malformed      *)
(* gives the empty string, and the status of a reply is not looked at: a   *)
(* reply with an error status gives what the same body gives with a        *)
(* success status.                                                         *)
(***************************************************************************)
C18_OnlyLostCallsGiveSentinel ==
    ask_done =>
        /\ ask_outcome.send \in SendFailures => ask_out = SENTINEL
        /\ (ask_outcome.send = "ok" /\ ask_outcome.body = MALFORMED_BODY)
              => ask_out = EMPTY
        /\ \A st \in Statuses :
              (ask_outcome.send = "ok" /\ ask_outcome.status = st) =>
                  /\ HasTextField => ask_out = ask_outcome.body.o.response.s
                  /\ ask_out = SENTINEL =>
                        (HasTextField /\ ask_outcome.body.o.response.s = SENTINEL)

\* a call that times out
C18_Witness ==
    /\ ask_done
    /\ ask_outcome.send = "timeout"
    /\ ask_out = SENTINEL

\* a reply that is no JSON
C18_WitnessMalformedBody ==
    /\ ask_done
    /\ ask_outcome = Outcome("ok", 200, MALFORMED_BODY)
    /\ ask_out = EMPTY

\* a reply with status 500 and a text
C18_WitnessErrorStatus ==
    /\ ask_done
    /\ ask_outcome = Outcome("ok", 500, JObj([response |-> JStr(<<"a">>)]))
    /\ ask_out = <<"a">>

(***************************************************************************)
(* C19: a well-formed reply without a textual response field (the field    *)
(* is absent or is no string) gives the empty string, which is not the     *)
(* sentinel; a reply whose response field is a string gives exactly that   *)
(* string.                                                                 *)
(***************************************************************************)
C19_NoTextFieldGivesEmpty ==
    (ask_done /\ WellFormedReply) =>
        /\ EMPTY # SENTINEL
        /\ ~HasTextField => ask_out = EMPTY
        /\ HasTextField => ask_out = ask_outcome.body.o.response.s

\* an object without the response field
C19_Witness ==
    /\ ask_done
    /\ ask_outcome = Outcome("ok", 200, JObj([error |-> JStr(<<"a">>)]))
    /\ ask_out = EMPTY
    /\ ask_out # SENTINEL

\* a response field that is a number
C19_WitnessNotAString ==
    /\ ask_done
    /\ ask_outcome = Outcome("ok", 200, JObj([response |-> JNum]))
    /\ ask_out = EMPTY

\* a response field that is a string
C19_WitnessText ==
    /\ ask_done
    /\ ask_outcome = Outcome("ok", 200, JObj([response |-> JStr(<<"A","b">>)]))
    /\ ask_out = <<"A","b">>

(***************************************************************************)
(* The derivation of the two paths driven alone, on every argument vector  *)
(* of at most MaxArgs arguments after the program name                     *)
(***************************************************************************)
MaxArgs ==
    3

BASE_Q ==
    <<"Q">>

OTHER_ARG ==
    <<"-","v">>

ArgTokens ==
    { FLAG, BASE_P, BASE_Q, OTHER_ARG }

CliArgVectors ==
    { <<>> } \cup { <<BIN>> \o rest : rest \in SeqsUpTo(ArgTokens, MaxArgs) }

CliInit ==
    /\ RunIdle
    /\ EvalIdle
    /\ ScoreIdle
    /\ LoadIdle
    /\ AskIdle
    /\ cli_args \in CliArgVectors
    /\ cli_out = [base |-> EMPTY, md_path |-> EMPTY, json_path |-> EMPTY]
    /\ cli_done = FALSE

\* lib.rs:4-10
DerivePaths ==
    /\ ~cli_done
    /\ cli_out' = [base      |-> parse_protocol_base(cli_args),
                   md_path   |-> parse_protocol_base(cli_args) \o EXT_MD,
                   json_path |-> parse_protocol_base(cli_args) \o EXT_JSON]
    /\ cli_done' = TRUE
    /\ cli_args' = cli_args
    /\ UNCHANGED runVars
    /\ UNCHANGED <<evalVars, scoreVars, loadVars, askVars>>

CliNext ==
    DerivePaths

CliSpec ==
    CliInit /\ [][CliNext]_vars

\* positions after the program name where the flag stands before a value
FlagPositions ==
    { i \in 2..(Len(cli_args) - 1) : cli_args[i] = FLAG }

\* the path is the base followed by the extension
HasBase(path, base, ext) ==
    /\ Len(path) = Len(base) + Len(ext)
    /\ SubSeq(path, 1, Len(base)) = base
    /\ SubSeq(path, Len(base) + 1, Len(path)) = ext

(***************************************************************************)
(* C20 as stated: the base name is the value that follows the --protocol   *)
(* flag when the flag is given, and COMMUNICATION_PROTOCOL when it is      *)
(* absent; the policy path is the base name with .md, the specification    *)
(* path the same base name with .json.                                     *)
(***************************************************************************)
C20_FlagGivenAnywhere ==
    cli_done =>
        /\ HasBase(cli_out.md_path, cli_out.base, EXT_MD)
        /\ HasBase(cli_out.json_path, cli_out.base, EXT_JSON)
        /\ FlagPositions = {} => cli_out.base = DEFAULT_BASE
        /\ FlagPositions # {} =>
              LET first == CHOOSE i \in FlagPositions : \A j \in FlagPositions : i <= j
              IN  cli_out.base = cli_args[first + 1]

(***************************************************************************)
(* C20 amended: the base name is the third entry of the argument vector    *)
(* when the vector has more than two entries and the entry right after the *)
(* program name is --protocol; in every other case (no flag, the flag      *)
(* without a value, the flag after another argument) it is                 *)
(* COMMUNICATION_PROTOCOL.  The policy path is the base name with .md, the *)
(* specification path the same base name with .json.                       *)
(***************************************************************************)
C20_FlagFirstOnly ==
    cli_done =>
        /\ HasBase(cli_out.md_path, cli_out.base, EXT_MD)
        /\ HasBase(cli_out.json_path, cli_out.base, EXT_JSON)
        /\ (2 \in FlagPositions) => cli_out.base = cli_args[3]
        /\ (2 \notin FlagPositions) => cli_out.base = DEFAULT_BASE

\* --protocol P
C20_Witness ==
    /\ cli_done
    /\ cli_args = <<BIN, FLAG, BASE_P>>
    /\ cli_out.md_path = <<"P",".","m","d">>
    /\ cli_out.json_path = <<"P",".","j","s","o","n">>

\* -v --protocol P
C20_WitnessFlagSecond ==
    /\ cli_done
    /\ cli_args = <<BIN, OTHER_ARG, FLAG, BASE_P>>
    /\ cli_out.base = DEFAULT_BASE

\* no argument
C20_WitnessDefault ==
    /\ cli_done
    /\ cli_args = <<BIN>>
    /\ cli_out.md_path = DEFAULT_BASE \o EXT_MD
    /\ cli_out.json_path = DEFAULT_BASE \o EXT_JSON

(***************************************************************************)
(* C21: when the process has exited after a precondition failure (missing  *)
(* policy, missing specification, unreadable policy, specification that    *)
(* cannot be read or parsed) its status is not zero, the one line on       *)
(* stderr is the message of that failure and no report was rendered; when  *)
(* it has exited after a completed run its status is zero, stderr is empty *)
(* and the report was rendered once.  A report is on stdout only when the  *)
(* run has completed.                                                      *)
(***************************************************************************)
\* the four precondition failures, read off the input documents
FailingInputs ==
    \/ InputDefect
    \/ jsonFile.kind # "text"
    \/ jsonFile.doc = INVALID_JSON

AllPreconditionErrors ==
    PreconditionErrors \cup { "MalformedInput" }

C21_ExitStatusFollowsOutcome ==
    /\ pc = "Exited" =>
          /\ FailingInputs <=> ErrorKind(ret) \in AllPreconditionErrors
          /\ ErrorKind(ret) \in AllPreconditionErrors =>
                /\ exit_code # 0
                /\ exit_code # NO_EXIT
                /\ stderr = << ret.err >>
                /\ ReportCount = 0
          /\ ErrorKind(ret) = "none" =>
                /\ ret = RESULT_OK
                /\ exit_code = 0
                /\ stderr = <<>>
                /\ ReportCount = 1
          /\ ErrorKind(ret) # "other"
    /\ pc # "Exited" => (exit_code = NO_EXIT /\ stderr = <<>>)
    /\ ReportCount > 0 => (pc \in {"Done", "Exited"} /\ ret = RESULT_OK)

\* a specification that is no JSON: the failure comes after the broadcast
C21_Witness ==
    /\ pc = "Exited"
    /\ ErrorKind(ret) = "MalformedInput"
    /\ jsonFile.doc = INVALID_JSON
    /\ exit_code = 1
    /\ Len(stderr) = 1
    /\ ReportCount = 0

\* a completed run
C21_WitnessCompleted ==
    /\ pc = "Exited"
    /\ exit_code = 0
    /\ Len(results) = 2
    /\ ReportCount = 1

(***************************************************************************)
(* C22: endpoint calls never overlap.  In every state at most one call has *)
(* been issued and has not returned.  A call is issued only when every     *)
(* earlier call has returned; the first per-test call only after the       *)
(* broadcast call has returned; the call of test i+1 only after the call   *)
(* of test i has returned and its result has been appended.                *)
(***************************************************************************)
\* calls issued that have not returned
InFlight ==
    Len(calls) - Len(replies)

C22_CallsNeverOverlap ==
    /\ [](InFlight \in {0, 1})
    /\ [](inflight <=> InFlight = 1)
    /\ [][Len(calls') > Len(calls) =>
            /\ Len(calls') = Len(calls) + 1
            /\ Len(replies) = Len(calls)
            /\ Len(calls) >= 1 => Len(results) = Len(calls) - 1]_vars
    /\ [][Len(results') > Len(results) =>
            /\ Len(replies') = Len(calls)
            /\ Len(results') = Len(calls) - 1]_vars

\* the call of the second test is in flight
C22_Witness ==
    /\ pc = "Iterating"
    /\ Len(calls) = 3
    /\ Len(replies) = 2
    /\ Len(results) = 1
    /\ inflight

(***************************************************************************)
(* C23: the violations of every TestResult are exactly the prefix          *)
(* violation when the prefix check fails, then one forbidden violation per *)
(* matching entry of test.forbidden in list order, an entry listed twice   *)
(* and matched giving two; the length is 1 or 0 for the prefix check plus  *)
(* the number of matching entries; the response field is the response as   *)
(* given, letter case included.                                            *)
(***************************************************************************)
ExpectedViolations(test, response) ==
    LET matching == MatchingEntries(test.forbidden, response)
    IN  (IF PrefixCheckFails(test, response) THEN << PrefixViolation >> ELSE <<>>)
        \o [k \in 1..Len(matching) |-> ForbiddenViolation(matching[k])]

C23_ViolationsInDetectionOrder ==
    fn_done =>
        /\ fn_result.violations = ExpectedViolations(fn_test, fn_response)
        /\ Len(fn_result.violations)
              = (IF PrefixCheckFails(fn_test, fn_response) THEN 1 ELSE 0)
                + Cardinality({ k \in 1..Len(fn_test.forbidden) :
                                  ContainsAnyCasing(fn_response, fn_test.forbidden[k]) })
        /\ fn_result.response = fn_response
        /\ Len(fn_result.response) = Len(fn_response)
        /\ \A k \in 1..Len(fn_response) : fn_result.response[k] = fn_response[k]

\* the prefix fails and an entry listed twice matches in another casing
C23_Witness ==
    /\ fn_done
    /\ fn_test.expected_start = <<"b">>
    /\ fn_test.forbidden = << <<"a">>, <<"a">> >>
    /\ fn_response = <<"A">>
    /\ fn_result.violations = << PrefixViolation, ForbiddenViolation(<<"a">>),
                                 ForbiddenViolation(<<"a">>) >>
    /\ fn_result.response = <<"A">>

\* two different entries match: list order, not order of occurrence
C23_WitnessListOrder ==
    /\ fn_done
    /\ fn_test.forbidden = << <<"A","b">>, <<"a">> >>
    /\ fn_response = <<"a","b">>
    /\ ForbiddenViolations(fn_result)
          = << ForbiddenViolation(<<"A","b">>), ForbiddenViolation(<<"a">>) >>

(***************************************************************************)
(* C24: the reply to the policy-broadcast call is discarded.  Once it has  *)
(* arrived, whatever it is (a text, the empty string, the sentinel), the   *)
(* result sequence and the outcome of the run are what the documents and   *)
(* the per-test replies alone determine: the i-th result is the result of  *)
(* the i-th record of the document on the reply to the i-th per-test call, *)
(* the run fails exactly when the specification cannot be read or parsed,  *)
(* the line printed after the broadcast is always the same, and the        *)
(* broadcast itself contributes no result.  Two runs that agree on the     *)
(* documents and the per-test replies therefore agree on all of these.     *)
(***************************************************************************)
BroadcastReply ==
    replies[1]

\* the replies of the per-test calls that have returned
TestReplies ==
    SubSeq(replies, 2, Len(replies))

\* what the documents and the per-test replies determine
ResultsDetermined ==
    IF jsonFile.kind = "text" /\ jsonFile.doc # INVALID_JSON /\ jsonFile.doc.t = "array"
    THEN [i \in 1..Len(TestReplies) |->
            LET test == ComplianceTest(jsonFile.doc.a[i])
                violations == ExpectedViolations(test, TestReplies[i].text)
            IN  TestResult(violations = <<>>, violations, TestReplies[i].text)]
    ELSE <<>>

OutcomeDetermined ==
    IF jsonFile.kind # "text" \/ jsonFile.doc = INVALID_JSON
    THEN "MalformedInput" ELSE "none"

C24_BroadcastReplyDiscarded ==
    Len(replies) >= 1 =>
        /\ results = ResultsDetermined
        /\ Len(results) = Len(replies) - 1
        /\ Len(stdout) >= 3
        /\ stdout[3] = Fmt("Protocol sent. Beginning compliance tests...\n", EMPTY)
        /\ HasReturned =>
              /\ ErrorKind(ret) = OutcomeDetermined
              /\ ret.tag = "Err" => ret.err.arg # BroadcastReply.text
        /\ pc = "Exited" => exit_code = (IF OutcomeDetermined = "none" THEN 0 ELSE 1)

\* the broadcast call failed and the run went on to complete
C24_Witness ==
    /\ pc = "Done"
    /\ BroadcastReply.text = SENTINEL
    /\ Len(results) = 2
    /\ results[2].passed

\* the broadcast reply was the empty string
C24_WitnessEmptyReply ==
    /\ pc = "Done"
    /\ BroadcastReply.send = "ok"
    /\ BroadcastReply.text = EMPTY
    /\ Len(results) = 2

\* the broadcast reply was a text that would fail a test
C24_WitnessText ==
    /\ pc = "Done"
    /\ BroadcastReply.text = <<"B","A","D">>
    /\ Len(results) = 1
    /\ results[1].passed

(***************************************************************************)
(* C25: the sentinel is scored like any reply.  The result of a test whose *)
(* call returned the sentinel has the sentinel as its response, its        *)
(* violations are those the prefix rule and the forbidden rule give on the *)
(* sentinel text, each of them is the prefix violation or the forbidden    *)
(* violation of one of the test's entries (none names a transport          *)
(* failure), and it has passed when there is none.                         *)
(***************************************************************************)
C25_SentinelScoredLikeAnyReply ==
    \A i \in 1..Len(results) :
        ReplyOf(i).text = SENTINEL =>
            /\ results[i].response = SENTINEL
            /\ results[i].violations = ExpectedViolations(tests[i], SENTINEL)
            /\ results[i].passed <=> (ExpectedViolations(tests[i], SENTINEL) = <<>>)
            /\ \A k \in 1..Len(results[i].violations) :
                  \/ results[i].violations[k] = PrefixViolation
                  \/ \E j \in 1..Len(tests[i].forbidden) :
                        results[i].violations[k] = ForbiddenViolation(tests[i].forbidden[j])

\* a failed call whose test expects no prefix: the result has passed
C25_Witness ==
    /\ Len(results) >= 1
    /\ ReplyOf(1).send = "refused"
    /\ results[1].response = SENTINEL
    /\ results[1].passed

\* a failed call whose test expects a prefix: the ordinary prefix violation
C25_WitnessPrefixViolation ==
    /\ Len(results) >= 1
    /\ ReplyOf(1).send = "refused"
    /\ results[1].violations = << PrefixViolation >>

(***************************************************************************)
(* C26: the progress stream is emitted live and in order.  While the call  *)
(* of test i is in flight the last line emitted is the line naming test i  *)
(* and nothing of its result is emitted yet.  Once its result is appended  *)
(* the stream holds, per completed test and in test order, the line naming *)
(* the test, the PASS or FAIL line (PASS exactly when passed), the          *)
(* violations block (a header and one line per violation, present only     *)
(* when there is a violation) and the response line; nothing of test i+1   *)
(* precedes any of these.  A step emits lines only at the end of the       *)
(* stream.                                                                 *)
(***************************************************************************)
PASS ==
    <<"P","A","S","S">>

FAIL ==
    <<"F","A","I","L">>

\* the three lines printed before the first test
StreamHeader ==
    << Fmt("=== PROTOCOL COMPLIANCE LIVE TESTER ===", EMPTY),
       Fmt("Initializing protocol enforcement...", EMPTY),
       Fmt("Protocol sent. Beginning compliance tests...\n", EMPTY) >>

TestLine(i) ==
    Fmt("Test: {}", tests[i].name)

\* the lines that report one result
ResultBlock(r) ==
    << Fmt("Result: {}", IF r.passed THEN PASS ELSE FAIL) >>
    \o (IF Len(r.violations) >= 1 THEN << Fmt("Violations:", EMPTY) >> ELSE <<>>)
    \o [k \in 1..Len(r.violations) |-> Fmt("  - {}", r.violations[k])]
    \o << Fmt("AI Response: {}\n", r.response) >>

\* the lines of test i once its result is known
TestBlock(i) ==
    << TestLine(i) >> \o ResultBlock(results[i])

RECURSIVE TestBlocks(_)
\* the lines of tests 1..n
TestBlocks(n) ==
    IF n = 0 THEN <<>> ELSE TestBlocks(n - 1) \o TestBlock(n)

\* the lines of the stream whose format is fmt
LinesOf(fmt) ==
    { k \in 1..Len(stdout) : stdout[k].fmt = fmt }

C26_ProgressStreamInOrder ==
    /\ [](pc = "Iterating" =>
            /\ stdout = StreamHeader \o TestBlocks(Len(results))
                         \o (IF inflight THEN << TestLine(Len(results) + 1) >> ELSE <<>>)
            /\ inflight => (/\ Len(calls) = Len(results) + 2
                            /\ stdout[Len(stdout)] = TestLine(Len(results) + 1)))
    /\ [](pc = "Done" =>
            SubSeq(stdout, 1, Len(stdout) - 5) = StreamHeader \o TestBlocks(Len(results)))
    /\ [](pc \in {"Iterating", "Done"} =>
            /\ Cardinality(LinesOf("Result: {}")) = Len(results)
            /\ Cardinality(LinesOf("Violations:"))
                  = Cardinality({ i \in 1..Len(results) : results[i].violations # <<>> })
            /\ Cardinality({ k \in LinesOf("Result: {}") : stdout[k].arg = PASS })
                  = Cardinality({ i \in 1..Len(results) : results[i].passed }))
    /\ [][/\ Len(stdout') >= Len(stdout)
          /\ SubSeq(stdout', 1, Len(stdout)) = stdout]_vars
    /\ [][Len(calls') > Len(calls) /\ pc = "Iterating" =>
             stdout' = Append(stdout, Fmt("Test: {}", tests[Len(results) + 1].name))]_vars
    /\ [][Len(results') > Len(results) =>
             /\ Len(calls') = Len(calls)
             /\ stdout' = stdout \o ResultBlock(results'[Len(results')])]_vars

\* two tests done: the first passed without violations block, the second
\* failed with one
C26_Witness ==
    /\ pc = "Done"
    /\ Len(results) = 2
    /\ results[1].passed
    /\ Len(results[2].violations) >= 1
    /\ Cardinality(LinesOf("Violations:")) = 1
    /\ Cardinality(LinesOf("Test: {}")) = 2

\* the second test is announced and its call is in flight
C26_WitnessInFlight ==
    /\ pc = "Iterating"
    /\ inflight
    /\ Len(results) = 1
    /\ Cardinality(LinesOf("Test: {}")) = 2
    /\ Cardinality(LinesOf("Result: {}")) = 1

(***************************************************************************)
(* C27: a run whose specification holds no test case makes exactly one     *)
(* endpoint call, the broadcast, and completes successfully; its report,   *)
(* the summary of the empty batch, shows total 0, passed 0, failed 0 and a *)
(* percentage that is no number (NaN), and the process exits with 0.       *)
(***************************************************************************)
ZERO_TEXT ==
    <<"0">>

\* the characters a finite percentage is written with
FiniteChars ==
    { "0", "1", "2", "3", "4", "5", "6", "7", "8", "9", "." }

\* the last five lines of stdout
LastReport ==
    SubSeq(stdout, Len(stdout) - 4, Len(stdout))

C27_EmptyBatchReportsNaN ==
    (pc \in {"Done", "Exited"} /\ ret = RESULT_OK /\ tests = <<>>) =>
        /\ results = <<>>
        /\ Len(calls) = 1
        /\ Len(replies) = 1
        /\ calls[1] = INIT_PROMPT \o mdFile.text
        /\ ReportCount = 1
        /\ LastReport[1] = Fmt("=== PROTOCOL COMPLIANCE REPORT ===", EMPTY)
        /\ LastReport[2] = Fmt("Total Tests: {}", ZERO_TEXT)
        /\ LastReport[3] = Fmt("Passed: {}", ZERO_TEXT)
        /\ LastReport[4] = Fmt("Failed: {}", ZERO_TEXT)
        /\ LastReport[5] = Fmt("COMPLIANCE SCORE: {:.1}%", <<"N","a","N">>)
        /\ \E k \in 1..Len(LastReport[5].arg) : LastReport[5].arg[k] \notin FiniteChars
        /\ pc = "Exited" => exit_code = 0

\* the empty array
C27_Witness ==
    /\ pc = "Exited"
    /\ jsonFile.doc = JArr(<<>>)
    /\ exit_code = 0
    /\ Len(calls) = 1
    /\ stdout[Len(stdout)].arg = <<"N","a","N">>

\* a document that is no array: no test case either
C27_WitnessNoArray ==
    /\ pc = "Done"
    /\ jsonFile.doc.t = "object"
    /\ tests = <<>>
    /\ Len(calls) = 1
    /\ ReportCount = 1

(***************************************************************************)
(* C28: the validation checks run in the order existence of the policy,    *)
(* existence of the specification, readability of the policy, and the      *)
(* first that fails decides the error: with both documents missing the run *)
(* fails with MissingPolicyDocument, with the specification missing and    *)
(* the policy present but unreadable it fails with MissingSpecDocument.    *)
(* One error is reported per failed run: one line on stderr, the message   *)
(* of that error.                                                          *)
(***************************************************************************)
\* the checks in their order, each with the error it raises
ValidationChecks ==
    << [fails |-> mdFile.kind = "missing", error |-> "MissingPolicyDocument"],
       [fails |-> jsonFile.kind = "missing", error |-> "MissingSpecDocument"],
       [fails |-> mdFile.kind = "unreadable", error |-> "UnreadablePolicyDocument"] >>

FailingChecks ==
    { k \in 1..Len(ValidationChecks) : ValidationChecks[k].fails }

C28_FirstFailingCheckDecides ==
    /\ (ValidationOver /\ FailingChecks # {}) =>
          /\ \E k \in FailingChecks :
                /\ \A j \in FailingChecks : k <= j
                /\ ErrorKind(ret) = ValidationChecks[k].error
          /\ pc \in {"Returned", "Exited"}
    /\ (ValidationOver /\ mdFile.kind = "missing" /\ jsonFile.kind = "missing") =>
          ErrorKind(ret) = "MissingPolicyDocument"
    /\ (ValidationOver /\ jsonFile.kind = "missing" /\ mdFile.kind = "unreadable") =>
          ErrorKind(ret) = "MissingSpecDocument"
    /\ Len(stderr) <= 1
    /\ (pc = "Exited" /\ ret.tag = "Err") => stderr = << ret.err >>

\* the specification is missing and the policy cannot be read
C28_Witness ==
    /\ pc = "Exited"
    /\ mdFile.kind = "unreadable"
    /\ jsonFile.kind = "missing"
    /\ ErrorKind(ret) = "MissingSpecDocument"
    /\ Len(stderr) = 1

\* both documents are missing
C28_WitnessBothMissing ==
    /\ pc = "Exited"
    /\ mdFile.kind = "missing"
    /\ jsonFile.kind = "missing"
    /\ stderr = << Fmt(ERR_MISSING_MD, md_path) >>

(***************************************************************************)
(* C29: a forbidden entry that is the empty string matches every response, *)
(* the empty response included: a test whose forbidden list holds an empty *)
(* string gets passed = FALSE and, once per such entry, the violation      *)
(* "Contains forbidden behavior: ''", whatever the response and whatever   *)
(* the other fields of the test.                                           *)
(***************************************************************************)
\* the positions of test.forbidden that hold the empty string
EmptyEntries(test) ==
    { k \in 1..Len(test.forbidden) : Len(test.forbidden[k]) = 0 }

EmptyEntryViolation ==
    Fmt("Contains forbidden behavior: '{}'", <<>>)

C29_EmptyEntryAlwaysMatches ==
    (fn_done /\ EmptyEntries(fn_test) # {}) =>
        /\ ~fn_result.passed
        /\ Cardinality({ j \in 1..Len(fn_result.violations) :
                            fn_result.violations[j] = EmptyEntryViolation })
              = Cardinality(EmptyEntries(fn_test))

\* the empty response against the empty entry, no prefix expected
C29_Witness ==
    /\ fn_done
    /\ fn_test.expected_start = EMPTY
    /\ fn_test.forbidden = << EMPTY >>
    /\ fn_response = EMPTY
    /\ ~fn_result.passed
    /\ fn_result.violations = << EmptyEntryViolation >>

\* a response that has the expected prefix and holds no other entry
C29_WitnessGoodResponse ==
    /\ fn_done
    /\ fn_test.expected_start = <<"b">>
    /\ fn_test.forbidden = << <<"a">>, EMPTY >>
    /\ fn_response = <<"b","b">>
    /\ fn_result.violations = << EmptyEntryViolation >>

(***************************************************************************)
(* C30: --protocol is honoured only as the first argument after the        *)
(* program name and with a value after it.  For every other argument       *)
(* vector (none, the flag as last argument, the flag after another         *)
(* argument, only other arguments, an empty vector) the base name is       *)
(* COMMUNICATION_PROTOCOL, and in no case does the derivation report an    *)
(* error: nothing is written to stderr, no Err is returned and the process *)
(* does not exit.                                                          *)
(***************************************************************************)
\* the flag is the first argument and a value follows it
FlagFirstWithValue ==
    /\ Len(cli_args) >= 3
    /\ cli_args[2] = FLAG

\* the shapes in which the flag is not honoured
FlagWithoutValue ==
    Len(cli_args) = 2 /\ cli_args[2] = FLAG

FlagOnlyLater ==
    /\ Len(cli_args) >= 3
    /\ cli_args[2] # FLAG
    /\ \E i \in 3..Len(cli_args) : cli_args[i] = FLAG

NoFlag ==
    \A i \in 2..Len(cli_args) : cli_args[i] # FLAG

C30_OtherShapesUseDefaultSilently ==
    cli_done =>
        /\ FlagFirstWithValue \/ FlagWithoutValue \/ FlagOnlyLater \/ NoFlag
        /\ FlagFirstWithValue => cli_out.base = cli_args[3]
        /\ (FlagWithoutValue \/ FlagOnlyLater \/ NoFlag) => cli_out.base = DEFAULT_BASE
        /\ cli_out.base # DEFAULT_BASE => FlagFirstWithValue
        /\ stderr = <<>>
        /\ ret = NO_RESULT
        /\ exit_code = NO_EXIT

\* the flag as the last argument
C30_Witness ==
    /\ cli_done
    /\ cli_args = <<BIN, FLAG>>
    /\ cli_out.base = DEFAULT_BASE
    /\ stderr = <<>>

\* the flag with its value after two other arguments
C30_WitnessFlagLater ==
    /\ cli_done
    /\ cli_args = <<BIN, OTHER_ARG, BASE_Q, FLAG>>
    /\ cli_out.md_path = DEFAULT_BASE \o EXT_MD

\* the flag first, its value being the flag text itself
C30_WitnessFlagTwice ==
    /\ cli_done
    /\ cli_args = <<BIN, FLAG, FLAG>>
    /\ cli_out.base = FLAG

=============================================================================
